---- MODULE Spec2Model ----
(***************************************************************************)
(* A model of the rate-limited access layer of the IndiaMART LMS SDK:      *)
(* RateLimiter (rate-limiter.js), CacheManager (cache-manager.js) and the  *)
(* orchestration of IndiaMartSDK.getLeadsForDateRange (sdk.js).            *)
(*                                                                         *)
(* Time is the integer number of milliseconds Date.now() returns.  The     *)
(* rate limiter stores instants as ISO-8601 strings (Date.toISOString) and *)
(* reads them back with new Date(string); toISOString keeps exactly the    *)
(* millisecond value of the Date, so the stored value is the millisecond   *)
(* count itself.                                                           *)
(***************************************************************************)
EXTENDS Integers, Sequences, FiniteSets, TLC

(***************************************************************************)
(* Bounds of the model.                                                    *)
(***************************************************************************)
\* longest persisted call history the environment is allowed to build
MaxCalls == 41
\* clock advances in the free rate-limiter specification
MaxAdvancesRL == 2
\* clock advances in the disciplined rate-limiter specification
MaxAdvancesD == 4
\* capacity of the cache in the cache specification (options.maxSize)
MaxSize == 2
\* number of cache operations in the cache specification
MaxCacheOps == 3
\* clock advances in the cache specification
MaxAdvancesC == 2
\* concurrent callers of the SDK
NumProcs == 2
\* requests each caller of the SDK may make
MaxRequests == 3
\* clock advances in the SDK specification
MaxAdvancesS == 2
\* largest attemptCount passed to shouldRetry
MaxAttempt == 4
\* largest maxRetries option passed to client.getLeads
MaxMaxRetries == 3
\* number of client.getLeads calls in the client specification
MaxClientCalls == 2
\* largest attemptCount passed to getRetryDelay and to handleError
MaxDelayAttempt == 4
\* largest number of days passed to getLastDaysRange
MaxDays == 9
\* number of IndiaMartComplianceManager calls, and of clock advances between
\* them
MaxManagerOps == 6
MaxAdvancesCM == 2
\* largest number of properties of a parameter object
MaxParams == 3

(***************************************************************************)
(* Program constants of RateLimiter.                                       *)
(***************************************************************************)
callsPerMinute == 5
callsPerHour == 20
blockDurationMinutes == 15

MinuteMs == 60 * 1000
HourMs == 60 * 60 * 1000
BlockMs == blockDurationMinutes * 60 * 1000

\* the JSON null stored in blockedUntil when no block is recorded
Null == 0 - 1

\* the amounts of time that may pass between two operations
Deltas == {30 * 1000, BlockMs, HourMs}

VARIABLES
    now,           \* the wall clock (ms)
    advances,      \* number of clock advances so far
    calls,         \* rate-limits.json: data.calls, in append order
    blockedUntil,  \* rate-limits.json: data.blockedUntil (Null or an instant)
    last,          \* what the latest RateLimiter operation returned
    cache,         \* CacheManager.cache: the Map's entries in insertion order
    stats,         \* CacheManager.stats
    maxSize,       \* CacheManager.maxSize
    cops,          \* number of cache operations so far
    cres,          \* what the latest CacheManager operation returned
    pc,            \* getLeadsForDateRange: where each caller's request is
    req,           \* the date range of each caller's current request
    result,        \* what each caller's latest request returned
    ranges,        \* per caller, the date ranges to choose from for each
                   \* of the requests it has still to make
    sent,          \* per caller, the number of client.getLeads invocations
    admitLog,      \* the instants at which canMakeCall admitted a request
    cl,            \* IndiaMartClient.getLeads: the state of the call in progress
    sr,            \* IndiaMartErrorHandler.shouldRetry: arguments and result
    eh,            \* IndiaMartErrorHandler: a response, the error created
                   \* for it and the retry delays computed for the error
    dc,            \* the date managers: the arguments of a call, the clock
                   \* reads made during the call and what it returned
    cm,            \* IndiaMartComplianceManager: its rate-limiting fields
                   \* and what the latest validateCall returned
    gk             \* CacheManager.generateKey: two parameter objects and
                   \* the keys generated for them

clockVars == <<now, advances>>

rlVars == <<calls, blockedUntil, last>>

cacheVars == <<cache, stats, maxSize, cops, cres>>

sdkVars == <<pc, req, result, ranges, sent, admitLog>>

probeVars == <<sr, eh, dc, cm, gk>>

clientVars == <<cl, sr, eh, dc, cm, gk>>

vars ==
    <<now, advances, calls, blockedUntil, last, cache, stats, maxSize, cops,
      cres, pc, req, result, ranges, sent, admitLog, cl, sr, eh, dc, cm,
      gk>>


(***************************************************************************)
(* CacheManager                                                            *)
(*                                                                         *)
(* A key is a string, modelled as the sequence of its characters; a        *)
(* cached value is an opaque string.  The Map keeps its entries in         *)
(* insertion order, and deleting a key and setting it again moves it to    *)
(* the end of that order.                                                  *)
(***************************************************************************)
\* the capacity and the default TTL the SDK constructs its cache with
sdkMaxSize == 1000
defaultTTL == 300000

\* null: the key "no key" of evictLRU and the value of a miss.  An empty
\* string is as falsy as null in `if (lruKey)`.
NoKey == <<>>
NoValue == "null"

CacheEntry(k, v, ttl, t) ==
    [key |-> k, value |-> v, createdAt |-> t, ttl |-> ttl,
     accessCount |-> 0, lastAccessed |-> t]

\* an expiry test that already fires when the age equals the ttl
isExpiredAtTtl(e, t) == t - e.createdAt >= e.ttl

\* entry.isExpired() at time t
isExpired(e, t) == t - e.createdAt > e.ttl

\* the position of key k in the Map, 0 when absent
KeyIndex(c, k) ==
    IF \E i \in 1..Len(c) : c[i].key = k
    THEN CHOOSE i \in 1..Len(c) : c[i].key = k
    ELSE 0

\* this.cache.delete(k)
Without(c, k) == SelectSeq(c, LAMBDA e : e.key # k)

\* the loop of evictLRU: the key it ends with
RECURSIVE LruScan(_, _, _, _)
LruScan(c, i, lruKey, lruTime) ==
    IF i > Len(c) THEN lruKey
    ELSE IF c[i].lastAccessed < lruTime
         THEN LruScan(c, i + 1, c[i].key, c[i].lastAccessed)
         ELSE LruScan(c, i + 1, lruKey, lruTime)

\* evictLRU() at time t
evictLRU(c, st, t) ==
    LET lruKey == LruScan(c, 1, NoKey, t)
    IN  IF lruKey # NoKey
        THEN [cache |-> Without(c, lruKey),
              stats |-> [st EXCEPT !.evictions = @ + 1, !.size = Len(c) - 1]]
        ELSE [cache |-> c, stats |-> st]

\* a set that tests the capacity before it removes the entry of k
SetCrowdedOn(c, st, mx, k, v, ttl, t) ==
    LET ev == IF Len(c) >= mx THEN evictLRU(c, st, t)
              ELSE [cache |-> c, stats |-> st]
        c2 == Append(Without(ev.cache, k), CacheEntry(k, v, ttl, t))
    IN  [cache |-> c2, stats |-> [ev.stats EXCEPT !.size = Len(c2)]]

\* set(k, v, ttl) at time t
SetOn(c, st, mx, k, v, ttl, t) ==
    LET c1 == Without(c, k)
        ev == IF Len(c1) >= mx THEN evictLRU(c1, st, t)
              ELSE [cache |-> c1, stats |-> st]
        c2 == Append(ev.cache, CacheEntry(k, v, ttl, t))
    IN  [cache |-> c2, stats |-> [ev.stats EXCEPT !.size = Len(c2)]]

\* a get that finds nothing
GetNothingOn(c, st, k, t) ==
    [cache |-> c, stats |-> [st EXCEPT !.misses = @ + 1], value |-> NoValue]

\* get(k) at time t
GetOn(c, st, k, t) ==
    LET i == KeyIndex(c, k)
    IN  IF i = 0
        THEN [cache |-> c, stats |-> [st EXCEPT !.misses = @ + 1],
              value |-> NoValue]
        ELSE IF isExpired(c[i], t)
        THEN [cache |-> Without(c, k),
              stats |-> [st EXCEPT !.misses = @ + 1, !.size = Len(c) - 1],
              value |-> NoValue]
        ELSE [cache |-> [c EXCEPT ![i].accessCount = @ + 1,
                                  ![i].lastAccessed = t],
              stats |-> [st EXCEPT !.hits = @ + 1],
              value |-> c[i].value]

\* size()
size == Len(cache)

\* a / b cut to the integer below
TruncDiv(a, b) == a \div b

\* Math.round(a / b) for a >= 0, b > 0: the nearest integer, halves upwards
RoundDiv(a, b) == (2 * a + b) \div (2 * b)

\* CacheManager.getStats().  A rate is a percentage with two decimals
\* (Math.round(rate * 100) / 100); the model holds it as the number of
\* hundredths of a percent, the integer Math.round computes.
getCacheStats ==
    LET totalRequests == stats.hits + stats.misses
    IN  [hits |-> stats.hits,
         misses |-> stats.misses,
         evictions |-> stats.evictions,
         size |-> stats.size,
         hitRate |-> IF totalRequests > 0
                     THEN RoundDiv(stats.hits * 100 * 100, totalRequests)
                     ELSE 0,
         missRate |-> IF totalRequests > 0
                      THEN RoundDiv(stats.misses * 100 * 100, totalRequests)
                      ELSE 0,
         totalRequests |-> totalRequests]

CacheResult(op, key, value, count) ==
    [op |-> op, key |-> key, value |-> value, count |-> count]

InitCache(mx) ==
    /\ cache = <<>>
    /\ stats = [hits |-> 0, misses |-> 0, evictions |-> 0, size |-> 0]
    /\ maxSize = mx
    /\ cops = 0
    /\ cres = CacheResult("none", NoKey, NoValue, 0)


\* has(k) at time t
HasOn(c, st, k, t) ==
    LET i == KeyIndex(c, k)
    IN  IF i = 0 THEN [cache |-> c, stats |-> st, found |-> FALSE]
        ELSE IF isExpired(c[i], t)
        THEN [cache |-> Without(c, k),
              stats |-> [st EXCEPT !.size = Len(c) - 1], found |-> FALSE]
        ELSE [cache |-> c, stats |-> st, found |-> TRUE]

\* new RegExp(p).test(k) for a pattern without metacharacters: p occurs in k
Matches(p, k) ==
    \E i \in 1..(Len(k) - Len(p) + 1) : SubSeq(k, i, i + Len(p) - 1) = p

\* the inputs of the cache operations
Keys == {<<"a">>, <<"b">>, <<"a", "b">>, <<"c">>}
Values == {"v1", "v2"}
TTLs == {1000, defaultTTL}
Patterns == {<<"a">>, <<"b">>, <<"a", "b">>, <<"d">>}
CacheDeltas == {1, 1000, defaultTTL}

CacheOp ==
    /\ cops < MaxCacheOps
    /\ cops' = cops + 1
    /\ UNCHANGED <<maxSize, now, advances, rlVars, sdkVars, clientVars>>

\* set(k, v, ttl); the count of the result is the number of entries the
\* set found under k and removed
SetKey(k) ==
    \E v \in Values, ttl \in TTLs :
        LET r == SetOn(cache, stats, maxSize, k, v, ttl, now)
        IN  /\ CacheOp
            /\ cache' = r.cache
            /\ stats' = r.stats
            /\ cres' = CacheResult("set", k, v,
                                    IF KeyIndex(cache, k) # 0 THEN 1 ELSE 0)

Set == \E k \in Keys : SetKey(k)

Get ==
    \E k \in Keys :
        LET r == GetOn(cache, stats, k, now)
        IN  /\ CacheOp
            /\ cache' = r.cache
            /\ stats' = r.stats
            /\ cres' = CacheResult("get", k, r.value, 0)

Has ==
    \E k \in Keys :
        LET r == HasOn(cache, stats, k, now)
        IN  /\ CacheOp
            /\ cache' = r.cache
            /\ stats' = r.stats
            /\ cres' = CacheResult("has", k, NoValue, IF r.found THEN 1 ELSE 0)

\* delete(k)
Delete ==
    \E k \in Keys :
        /\ CacheOp
        /\ cache' = Without(cache, k)
        /\ stats' = IF KeyIndex(cache, k) # 0
                    THEN [stats EXCEPT !.size = Len(cache) - 1]
                    ELSE stats
        /\ cres' = CacheResult("delete", k, NoValue, 0)

\* cleanup(): deletes the expired entries, returns their number
Cleanup ==
    LET kept == SelectSeq(cache, LAMBDA e : ~isExpired(e, now))
    IN  /\ CacheOp
        /\ cache' = kept
        /\ stats' = [stats EXCEPT !.size = Len(kept)]
        /\ cres' = CacheResult("cleanup", NoKey, NoValue, Len(cache) - Len(kept))

\* an invalidation that stops after the first key it deleted
InvalidateFirstOn(c, p) ==
    LET hits == {i \in 1..Len(c) : Matches(p, c[i].key)}
    IN  IF hits = {} THEN c
        ELSE LET first == CHOOSE i \in hits : \A j \in hits : i <= j
             IN  SubSeq(c, 1, first - 1) \o SubSeq(c, first + 1, Len(c))

\* the entries of c that invalidatePattern(p) leaves in the Map
InvalidateOn(c, p) == SelectSeq(c, LAMBDA e : ~Matches(p, e.key))

\* invalidatePattern(p): deletes the matching keys, returns their number
InvalidatePattern ==
    \E p \in Patterns :
        LET kept == InvalidateOn(cache, p)
        IN  /\ CacheOp
            /\ cache' = kept
            /\ stats' = [stats EXCEPT !.size = Len(kept)]
            /\ cres' = CacheResult("invalidatePattern", p, NoValue,
                                   Len(cache) - Len(kept))

AdvanceC ==
    /\ advances < MaxAdvancesC
    /\ \E d \in CacheDeltas : now' = now + d
    /\ advances' = advances + 1
    /\ cres' = CacheResult("none", NoKey, NoValue, 0)
    /\ UNCHANGED <<cache, stats, maxSize, cops, rlVars, sdkVars, clientVars>>


(***************************************************************************)
(* IndiaMartSDK.getLeadsForDateRange                                       *)
(*                                                                         *)
(* A caller's request runs in segments separated by the awaits of the      *)
(* method; between two segments the requests of other callers may run.     *)
(***************************************************************************)
Procs == 1..NumProcs

RangeNames ==
    <<"r1", "r2", "r3", "r4", "r5", "r6", "r7", "r8", "r9", "r10", "r11",
      "r12", "r13", "r14", "r15", "r16", "r17", "r18", "r19", "r20", "r21",
      "r22">>

Responses ==
    <<"leads1", "leads2", "leads3", "leads4", "leads5", "leads6", "leads7",
      "leads8", "leads9", "leads10", "leads11", "leads12", "leads13",
      "leads14", "leads15", "leads16", "leads17", "leads18", "leads19",
      "leads20", "leads21", "leads22">>

\* this.cache.generateKey('leads', {startDate, endDate}) for date range r
RangeKey(r) == <<"leads", RangeNames[r]>>

\* a responseData that carries success: false
FailureData(r) == "failure"

\* the responseData built from a successful client.getLeads for range r
Response(r) == Responses[r]

\* What a request returned: success and code are the fields of the returned
\* object, value stands for the leads it holds, retryAfter is its retryAfter
\* property (Null when the object has none), and `from` names the return
\* statement that produced it.
NoRequest ==
    [success |-> FALSE, code |-> 0, from |-> "none", value |-> "null",
     retryAfter |-> Null]

\* no client.getLeads call is in progress
NoCall ==
    [pc |-> "idle", maxRetries |-> 0, attemptCount |-> 0, fetches |-> 0,
     delay |-> 0, checked |-> FALSE, done |-> 0, outcome |-> "none",
     cancelled |-> FALSE]

\* shouldRetry has not been called
NoProbe == [type |-> "undefined", attemptCount |-> 0, maxRetries |-> 0,
            returned |-> "none"]

\* no response has been handled
NoError == [step |-> "none"]

\* no date range has been asked for
NoDates == [step |-> "none"]

\* no IndiaMartComplianceManager has been constructed
NoManager == [step |-> "none"]

\* generateKey has not been called
NoKeys == [step |-> "none"]

\* every caller is idle; plan[p] is, for each request p will make, the set
\* of date ranges the request is for one of
InitCallers(plan) ==
    /\ pc = [p \in Procs |-> "idle"]
    /\ req = [p \in Procs |-> 0]
    /\ result = [p \in Procs |-> NoRequest]
    /\ ranges = [p \in Procs |-> IF p \in DOMAIN plan THEN plan[p] ELSE <<>>]
    /\ sent = [p \in Procs |-> 0]
    /\ admitLog = <<>>
    /\ cl = NoCall
    /\ sr = NoProbe
    /\ eh = NoError
    /\ dc = NoDates
    /\ cm = NoManager
    /\ gk = NoKeys

(***************************************************************************)
(* RateLimiter                                                             *)
(***************************************************************************)
\* Math.floor(a / b)
FloorDiv(a, b) == a \div b

\* Math.ceil(a / b) for b > 0
CeilDiv(a, b) == (a + b - 1) \div b

\* data.calls.filter(callTime => new Date(callTime) > new Date(t - window))
CallsWithin(cs, t, window) == SelectSeq(cs, LAMBDA c : c > t - window)

NoResult ==
    [op |-> "none", allowed |-> FALSE, reason |-> "", retryAfter |-> 0,
     isBlocked |-> FALSE, callsPerMinute |-> 0, callsPerHour |-> 0]

CheckResult(allowed, reason, retryAfter) ==
    [op |-> "canMakeCall", allowed |-> allowed, reason |-> reason,
     retryAfter |-> retryAfter,
     isBlocked |-> FALSE, callsPerMinute |-> 0, callsPerHour |-> 0]

\* The data canMakeCall works on once the block test is over: a block that
\* has expired is cleared, together with the history, in the local copy.
AfterBlockTest(cs, bu, t) ==
    IF bu # Null /\ ~(t < bu)
    THEN [calls |-> <<>>, blockedUntil |-> Null]
    ELSE [calls |-> cs, blockedUntil |-> bu]

\* a check that starts the block again whenever it finds the key blocked
CanMakeCallExtending(cs, bu, t) ==
    IF bu # Null /\ t < bu
    THEN [res |-> CheckResult(FALSE, "RATE_LIMIT_BLOCKED", BlockMs),
          calls |-> cs, blockedUntil |-> t + BlockMs]
    ELSE IF Len(CallsWithin(AfterBlockTest(cs, bu, t).calls, t, HourMs))
               >= callsPerHour
    THEN [res |-> CheckResult(FALSE, "HOURLY_LIMIT_EXCEEDED", BlockMs),
          calls |-> CallsWithin(AfterBlockTest(cs, bu, t).calls, t, HourMs),
          blockedUntil |-> t + BlockMs]
    ELSE [res |-> CheckResult(TRUE, "OK", 0),
          calls |-> cs, blockedUntil |-> bu]

\* canMakeCall() at time t on the loaded data (cs, bu): the result it
\* returns, and the data the file holds afterwards (only the hourly-limit
\* branch calls saveRateLimitData).
CanMakeCallOn(cs, bu, t) ==
    IF bu # Null /\ t < bu
    THEN [res |-> CheckResult(FALSE, "RATE_LIMIT_BLOCKED",
                              CeilDiv(bu - t, MinuteMs) * MinuteMs),
          calls |-> cs, blockedUntil |-> bu]
    ELSE
      LET d == AfterBlockTest(cs, bu, t)
          pruned == CallsWithin(d.calls, t, HourMs)
          recent == CallsWithin(pruned, t, MinuteMs)
      IN  IF Len(pruned) >= callsPerHour
          THEN [res |-> CheckResult(FALSE, "HOURLY_LIMIT_EXCEEDED", BlockMs),
                calls |-> pruned, blockedUntil |-> t + BlockMs]
          ELSE IF Len(recent) >= callsPerMinute
          THEN [res |-> CheckResult(FALSE, "MINUTE_LIMIT_EXCEEDED",
                          (60 - ((t - recent[1]) \div 1000)) * 1000),
                calls |-> cs, blockedUntil |-> bu]
          ELSE [res |-> CheckResult(TRUE, "OK", 0),
                calls |-> cs, blockedUntil |-> bu]

\* a recordCall that saves the history as it found it
RecordNothingOn(cs, t, success) == cs

\* a recordCall that keeps the pushed instant whatever `success` is
RecordCallKept(cs, t, success) == Append(cs, t)

\* recordCall(success) at time t: push, pop again when the call failed, save
RecordCallOn(cs, t, success) ==
    LET pushed == Append(cs, t)
    IN  IF success THEN pushed ELSE SubSeq(pushed, 1, Len(pushed) - 1)

\* getStats(): a read of the file
getStats ==
    [totalCalls |-> Len(calls),
     callsLastHour |-> Len(CallsWithin(calls, now, HourMs)),
     isBlocked |-> blockedUntil # Null,
     blockedUntil |-> blockedUntil]

CanMakeCall ==
    LET r == CanMakeCallOn(calls, blockedUntil, now)
    IN  /\ last' = r.res
        /\ calls' = r.calls
        /\ blockedUntil' = r.blockedUntil
        /\ UNCHANGED <<now, advances, cacheVars, sdkVars, clientVars>>

RecordCall(success) ==
    /\ success => Len(calls) < MaxCalls
    /\ calls' = RecordCallOn(calls, now, success)
    /\ last' = NoResult
    /\ UNCHANGED <<now, advances, blockedUntil, cacheVars, sdkVars, clientVars>>

\* getStatus(): loads the data, then runs canMakeCall (which may save a new
\* block), and reports the counters and the block of the data it loaded first
GetStatus ==
    LET r == CanMakeCallOn(calls, blockedUntil, now)
    IN  /\ last' = [r.res EXCEPT
                       !.op = "getStatus",
                       !.isBlocked = (blockedUntil # Null),
                       !.callsPerMinute = Len(CallsWithin(calls, now, MinuteMs)),
                       !.callsPerHour = Len(CallsWithin(calls, now, HourMs))]
        /\ calls' = r.calls
        /\ blockedUntil' = r.blockedUntil
        /\ UNCHANGED <<now, advances, cacheVars, sdkVars, clientVars>>

\* reset()
Reset ==
    /\ calls' = <<>>
    /\ blockedUntil' = Null
    /\ last' = NoResult
    /\ UNCHANGED <<now, advances, cacheVars, sdkVars, clientVars>>

Advance(cap) ==
    /\ advances < cap
    /\ \E d \in Deltas : now' = now + d
    /\ advances' = advances + 1
    /\ last' = NoResult
    /\ UNCHANGED <<calls, blockedUntil, cacheVars, sdkVars, clientVars>>

InitClock ==
    /\ now = 0
    /\ advances = 0

\* no rate-limits.json yet: loadRateLimitData returns the empty data
InitLimiter ==
    /\ calls = <<>>
    /\ blockedUntil = Null
    /\ last = NoResult

InitRL ==
    /\ InitClock
    /\ InitLimiter
    /\ InitCache(sdkMaxSize)
    /\ InitCallers(<<>>)

AdvanceRL == Advance(MaxAdvancesRL)

RecordSuccess == RecordCall(TRUE)

RecordFailure == RecordCall(FALSE)

NextRL ==
    \/ CanMakeCall
    \/ RecordSuccess
    \/ RecordFailure
    \/ GetStatus
    \/ Reset
    \/ AdvanceRL

SpecRL == InitRL /\ [][NextRL]_vars

(***************************************************************************)
(* The caller's discipline of sdk.js around the rate limiter: a check, and *)
(* recordCall(true) right after every check that allowed the call.         *)
(***************************************************************************)
Pending == last.op = "canMakeCall" /\ last.allowed

CheckD == ~Pending /\ CanMakeCall

RecordD == Pending /\ RecordCall(TRUE)

AdvanceD == ~Pending /\ Advance(MaxAdvancesD)

NextRLD ==
    \/ CheckD
    \/ RecordD
    \/ AdvanceD

SpecRLD == InitRL /\ [][NextRLD]_vars


(***************************************************************************)
(* The cache on its own, with a small capacity.                            *)
(***************************************************************************)
InitC ==
    /\ InitClock
    /\ InitLimiter
    /\ InitCache(MaxSize)
    /\ InitCallers(<<>>)

NextC ==
    \/ Set
    \/ Get
    \/ Has
    \/ Delete
    \/ Cleanup
    \/ InvalidatePattern
    \/ AdvanceC

SpecC == InitC /\ [][NextC]_vars

(***************************************************************************)
(* CacheManager.generateKey.  A parameter object is the sequence of its    *)
(* <<name, value>> properties in insertion order, and the key              *)
(* "prefix:name:value|name:value" is the sequence of its parts.            *)
(***************************************************************************)
\* the names of the parameters, in the order Array.prototype.sort puts
\* them in (by UTF-16 code units)
ParamNames == <<"endDate", "page", "startDate">>

ParamValues == {"d1", "d2"}

Prefixes == {"leads", "api:leads"}

\* the place of a name in the sorted order
Rank(name) == CHOOSE i \in 1..Len(ParamNames) : ParamNames[i] = name

\* the parameter objects: every insertion order of every choice of names
\* and values
ParamObjects ==
    UNION {{params \in [1..n -> {<<ParamNames[i], v>> :
                                    i \in 1..Len(ParamNames),
                                    v \in ParamValues}] :
              \A i, j \in 1..n : i # j => params[i][1] # params[j][1]} :
           n \in 0..MaxParams}

\* the objects that hold the properties of params in some insertion order
Reordered(params) ==
    {other \in ParamObjects :
        /\ Len(other) = Len(params)
        /\ {other[i] : i \in 1..Len(other)}
               = {params[i] : i \in 1..Len(params)}}

\* the properties in insertion order: Object.keys(params) without the sort
insertionOrder(params) == params

\* Object.keys(params).sort(): the properties in the order of their names
sortedParams(params) ==
    LET n == Len(params)
        place(i) ==
            1 + Cardinality({j \in 1..n :
                                Rank(params[j][1]) < Rank(params[i][1])})
    IN  [k \in 1..n |-> params[CHOOSE i \in 1..n : place(i) = k]]

RECURSIVE joined(_)
\* .map(key => `${key}:${params[key]}`).join('|')
joined(pairs) ==
    IF pairs = <<>> THEN <<>>
    ELSE <<pairs[1][1], pairs[1][2]>> \o joined(Tail(pairs))

generateKey(prefix, params) == <<prefix>> \o joined(sortedParams(params))

InitKeys ==
    /\ InitClock
    /\ InitLimiter
    /\ InitCache(sdkMaxSize)
    /\ InitCallers(<<>>)

\* generateKey(prefix, first) and generateKey(prefix, second) for two
\* objects with the same properties
GenerateKeys ==
    /\ gk.step = "none"
    /\ \E prefix \in Prefixes, first \in ParamObjects :
          \E second \in Reordered(first) :
             gk' = [step |-> "generated", prefix |-> prefix,
                    first |-> first, second |-> second,
                    key1 |-> generateKey(prefix, first),
                    key2 |-> generateKey(prefix, second),
                    stored |-> NoValue]
    /\ UNCHANGED <<now, advances, rlVars, cacheVars, sdkVars, cl, sr, eh, dc,
                   cm>>

\* cache.set(generateKey(prefix, first), v)
SetFirst ==
    /\ gk.step = "generated"
    /\ \E v \in Values :
          LET r == SetOn(cache, stats, maxSize, gk.key1, v, defaultTTL, now)
          IN  /\ cache' = r.cache
              /\ stats' = r.stats
              /\ cres' = CacheResult("set", gk.key1, v, 0)
              /\ gk' = [gk EXCEPT !.step = "stored", !.stored = v]
    /\ UNCHANGED <<now, advances, rlVars, maxSize, cops, sdkVars, cl, sr, eh,
                   dc, cm>>

\* cache.get(generateKey(prefix, second))
GetSecond ==
    /\ gk.step = "stored"
    /\ LET r == GetOn(cache, stats, gk.key2, now)
       IN  /\ cache' = r.cache
           /\ stats' = r.stats
           /\ cres' = CacheResult("get", gk.key2, r.value, 0)
    /\ gk' = [gk EXCEPT !.step = "read"]
    /\ UNCHANGED <<now, advances, rlVars, maxSize, cops, sdkVars, cl, sr, eh,
                   dc, cm>>

NextKeys ==
    \/ GenerateKeys
    \/ SetFirst
    \/ GetSecond

SpecKeys == InitKeys /\ [][NextKeys]_vars


(***************************************************************************)
(* DateComplianceManager (date-compliance.js).  Instant 0 is the start of   *)
(* the model's clock.  The dates the callers pass are whole seconds, and a *)
(* date is held as its number of seconds: a year of milliseconds does not  *)
(* fit the 32-bit integers of the checker.  With end and start whole       *)
(* seconds and t in milliseconds,                                          *)
(*   Math.ceil((end - start) ms / day) = ceil((end - start) s / DaySec),   *)
(*   Math.ceil((t - start) ms / day) = ceil((ceil(t / 1000) - start)       *)
(*                                          / DaySec),                     *)
(*   end > t  iff  end s > floor(t / 1000).                                *)
(***************************************************************************)
maxDateRangeDays == 7
maxHistoricalDays == 365

DaySec == 24 * 60 * 60

\* a validateDateRange that stops at the first rule a range breaks
validateDateRangeFirst(start, end, t) ==
    LET error ==
            IF start >= end THEN {"Start date must be before end date"}
            ELSE IF end > t \div 1000
            THEN {"End date cannot be in the future"}
            ELSE IF end - start > maxDateRangeDays * DaySec
            THEN {"Date range cannot exceed 7 days"}
            ELSE IF (t + 999) \div 1000 - start > maxHistoricalDays * DaySec
            THEN {"Data older than 365 days is not available"}
            ELSE {}
    IN  [isValid |-> error = {}, errors |-> error, days |-> Null,
         daysFromNow |-> Null]

\* validateDateRange(startDate, endDate) at time t (ms), for two valid dates
\* (s)
validateDateRange(start, end, t) ==
    LET daysDiff == CeilDiv(end - start, DaySec)
        daysFromNow == CeilDiv(CeilDiv(t, 1000) - start, DaySec)
        errors ==
            {e \in {"Start date must be before end date",
                    "End date cannot be in the future",
                    "Date range cannot exceed 7 days",
                    "Data older than 365 days is not available",
                    "Start date cannot be in the future"} :
               \/ e = "Start date must be before end date" /\ start >= end
               \/ e = "End date cannot be in the future" /\ end > t \div 1000
               \/ e = "Date range cannot exceed 7 days"
                     /\ daysDiff > maxDateRangeDays
               \/ e = "Data older than 365 days is not available"
                     /\ daysFromNow > maxHistoricalDays
               \/ e = "Start date cannot be in the future" /\ daysFromNow < 0}
    IN  [isValid |-> errors = {}, errors |-> errors,
         days |-> daysDiff, daysFromNow |-> daysFromNow]

\* the date ranges the callers ask for that fail the compliance validation:
\* an empty range, a range that ends in the future, a range of 8 days, and
\* a range that starts 366 days back
BadRanges == 19..22

\* the start and end dates of range r; the ranges below 19 are the single
\* days before instant 0
DateRange(r) ==
    CASE r = 19 -> [startDate |-> 0 - DaySec, endDate |-> 0 - DaySec]
      [] r = 20 -> [startDate |-> 0 - DaySec, endDate |-> 2 * DaySec]
      [] r = 21 -> [startDate |-> 0 - 9 * DaySec, endDate |-> 0 - DaySec]
      [] r = 22 -> [startDate |-> 0 - 366 * DaySec, endDate |-> 0 - 365 * DaySec]
      [] OTHER -> [startDate |-> 0 - (r + 1) * DaySec, endDate |-> 0 - r * DaySec]

\* a compliance test that lets every range through
AnyRange(r, t) == TRUE

\* this.dateCompliance.validateDateRange(...).isValid for range r at time t
Compliant(r, t) ==
    validateDateRange(DateRange(r).startDate, DateRange(r).endDate, t).isValid

(***************************************************************************)
(* IndiaMartComplianceManager.validateDateRange (compliance-manager.js)    *)
(* and the ranges DateComplianceManager builds from the clock.  The clock  *)
(* reads of this part fall on whole seconds.                               *)
(***************************************************************************)
\* An argument of a validateDateRange: a date (its seconds), a value that
\* new Date makes an Invalid Date of, or a missing value (undefined).
DateOf(s) == [kind |-> "date", time |-> s]

NaD == [kind |-> "Invalid Date", time |-> 0]

Missing == [kind |-> "undefined", time |-> 0]

\* DateComplianceManager.validateDateRange(startDate, endDate) at time t
\* (ms), for any two arguments
validateDates(startDate, endDate, t) ==
    IF startDate.kind # "date" \/ endDate.kind # "date"
    THEN [isValid |-> FALSE,
          errors |-> {e \in {"Invalid start date format",
                             "Invalid end date format"} :
                        \/ e = "Invalid start date format"
                              /\ startDate.kind # "date"
                        \/ e = "Invalid end date format"
                              /\ endDate.kind # "date"},
          days |-> Null, daysFromNow |-> Null]
    ELSE validateDateRange(startDate.time, endDate.time, t)

\* a validateDateRange without the test of start >= end
validateDateRangeLenient(startTime, endTime, t) ==
    LET errors ==
            IF startTime.kind # "date" \/ endTime.kind # "date"
            THEN {"Both start_time and end_time are required"}
            ELSE {e \in {"Date range cannot exceed 7 days",
                         "Data older than 365 days is not available"} :
                    \/ e = "Date range cannot exceed 7 days"
                          /\ endTime.time - startTime.time > 7 * DaySec
                    \/ e = "Data older than 365 days is not available"
                          /\ CeilDiv(t, 1000) - startTime.time > 365 * DaySec}
    IN  [isValid |-> errors = {}, errors |-> errors]

\* IndiaMartComplianceManager.validateDateRange(startTime, endTime) at time
\* t (ms).  daysDiff and daysSinceStart are quotients that are not rounded:
\*   (end - start) ms / day > 7  iff  end - start > 7 * DaySec,
\*   (t - start) ms / day > 365  iff  ceil(t / 1000) - start > 365 * DaySec.
validateDateRangeCM(startTime, endTime, t) ==
    LET start == startTime.time
        end == endTime.time
        errors ==
            IF startTime = Missing \/ endTime = Missing
            THEN {"Both start_time and end_time are required"}
            ELSE IF startTime = NaD \/ endTime = NaD
            THEN {e \in {"Invalid start_time format",
                         "Invalid end_time format"} :
                    \/ e = "Invalid start_time format" /\ startTime = NaD
                    \/ e = "Invalid end_time format" /\ endTime = NaD}
            ELSE {e \in {"end_time must be greater than start_time",
                         "Date range cannot exceed 7 days",
                         "Data older than 365 days is not available"} :
                    \/ e = "end_time must be greater than start_time"
                          /\ start >= end
                    \/ e = "Date range cannot exceed 7 days"
                          /\ end - start > 7 * DaySec
                    \/ e = "Data older than 365 days is not available"
                          /\ CeilDiv(t, 1000) - start > 365 * DaySec}
    IN  [isValid |-> errors = {}, errors |-> errors]

\* the clock at the start of a call, and the time that passes between two
\* clock reads of one call
DateClocks == {0, 1000, 12 * HourMs, 24 * HourMs - 1000, 24 * HourMs}

Elapsed == {0, 1000, HourMs}

\* the distances (s) from the start date to the clock and to the end date
StartsBack ==
    {365 * DaySec + 1, 365 * DaySec, 7 * DaySec + 1, 7 * DaySec, DaySec, 1, 0,
     0 - 1, 0 - DaySec}

Spans ==
    {0 - DaySec, 0 - 1, 0, 1, DaySec, DaySec + 1, 7 * DaySec, 7 * DaySec + 1,
     8 * DaySec}

\* the dates passed to validateDateRange when the clock shows t (ms)
StartDates(t) == {DateOf(t \div 1000 - b) : b \in StartsBack} \cup {NaD}

EndDates(start) ==
    IF start.kind # "date" THEN {DateOf(0), NaD}
    ELSE {DateOf(start.time + d) : d \in Spans} \cup {NaD}

\* The zone of the process: its offset from UTC (s), instant 0 being a
\* midnight UTC, and the difference between the zone's offsets at two
\* instants some days apart (an hour when a daylight-saving change lies
\* between them).
ZoneOffsets == {0, 19800, 0 - 18000}

OffsetShifts == {0, 3600, 0 - 3600}

\* new Date(d.getFullYear(), d.getMonth(), d.getDate()) for the instant ts
\* (s) in the zone of offset off
startOfDay(ts, off) == ((ts + off) \div DaySec) * DaySec - off

\* d.setDate(d.getDate() + n): the same local time n days on, where the
\* zone's offset has moved by shift
addDays(ts, n, shift) == ts + n * DaySec + shift

\* Math.min(days, this.limits.maxDateRangeDays)
actualDaysOf(days) == IF days < maxDateRangeDays THEN days ELSE maxDateRangeDays

InitDates ==
    /\ now \in DateClocks
    /\ advances = 0
    /\ InitLimiter
    /\ InitCache(sdkMaxSize)
    /\ InitCallers(<<>>)

\* DateComplianceManager.validateDateRange(startDate, endDate)
ValidateDateRange ==
    /\ dc.step = "none"
    /\ \E start \in StartDates(now) : \E end \in EndDates(start) :
          dc' = [step |-> "DateComplianceManager.validateDateRange",
                 startDate |-> start, endDate |-> end, at |-> now,
                 days |-> 0, actualDays |-> 0,
                 compliance |-> validateDates(start, end, now)]
    /\ UNCHANGED <<now, advances, rlVars, cacheVars, sdkVars, cl, sr, eh, cm,
                   gk>>

\* IndiaMartComplianceManager.validateDateRange(startTime, endTime)
ValidateDateRangeCM ==
    /\ dc.step = "none"
    /\ \E start \in StartDates(now) \cup {Missing} :
          \E end \in EndDates(start) \cup {Missing} :
             dc' = [step |-> "IndiaMartComplianceManager.validateDateRange",
                    startDate |-> start, endDate |-> end, at |-> now,
                    days |-> 0, actualDays |-> 0,
                    compliance |-> validateDateRangeCM(start, end, now)]
    /\ UNCHANGED <<now, advances, rlVars, cacheVars, sdkVars, cl, sr, eh, cm,
                   gk>>

\* DateComplianceManager.getTodayRange(): the clock is read for today and
\* again by validateDateRange; today lies before the end of its day, which
\* is 23, 24 or 25 hours long
GetTodayRange ==
    /\ dc.step = "none"
    /\ \E off \in ZoneOffsets, shift \in OffsetShifts, e \in Elapsed :
          LET today == now \div 1000
              startOfToday == startOfDay(today, off)
              endOfDay == addDays(startOfToday, 1, shift)
          IN  /\ today < endOfDay
              /\ now' = now + e
              /\ dc' = [step |-> "getTodayRange",
                        startDate |-> DateOf(startOfToday),
                        endDate |-> DateOf(endOfDay),
                        at |-> now', days |-> 0, actualDays |-> 0,
                        compliance |->
                            validateDates(DateOf(startOfToday),
                                          DateOf(endOfDay), now')]
    /\ UNCHANGED <<advances, rlVars, cacheVars, sdkVars, cl, sr, eh, cm, gk>>

\* DateComplianceManager.getLastDaysRange(days): the clock is read for
\* endDate, for actualStartDate and by validateDateRange
GetLastDaysRange ==
    /\ dc.step = "none"
    /\ \E days \in 1..MaxDays, shift \in OffsetShifts, e1 \in Elapsed,
          e2 \in Elapsed :
          LET endDate == now \div 1000
              actualDays == actualDaysOf(days)
              actualStartDate ==
                  addDays((now + e1) \div 1000, 0 - actualDays, shift)
          IN  /\ now' = now + e1 + e2
              /\ dc' = [step |-> "getLastDaysRange",
                        startDate |-> DateOf(actualStartDate),
                        endDate |-> DateOf(endDate),
                        at |-> now', days |-> days,
                        actualDays |-> actualDays,
                        compliance |->
                            validateDates(DateOf(actualStartDate),
                                          DateOf(endDate), now')]
    /\ UNCHANGED <<advances, rlVars, cacheVars, sdkVars, cl, sr, eh, cm, gk>>

NextDates ==
    \/ ValidateDateRange
    \/ ValidateDateRangeCM
    \/ GetTodayRange
    \/ GetLastDaysRange

SpecDates == InitDates /\ [][NextDates]_vars

(***************************************************************************)
(* IndiaMartComplianceManager: validateCall, recordCall, handleBlocking.   *)
(* Date.now() is a positive number, so a lastCallTime that recordCall set  *)
(* is truthy: only the null of the constructor (Null) is not.              *)
(***************************************************************************)
\* IndiaMartComplianceManager.minIntervalMs, the minimum interval between
\* two calls
minIntervalMs == 5 * 60 * 1000

maxCallsPerMinute == 5

blockDurationMs == 15 * 60 * 1000

\* the manager after its constructor
NewManager ==
    [step |-> "constructor", callHistory |-> <<>>, lastCallTime |-> Null,
     isBlocked |-> FALSE, blockedUntil |-> Null, at |-> 0, isValid |-> TRUE,
     violations |-> {}, ops |-> 0]

Violation(type, retryAfter) == [type |-> type, retryAfter |-> retryAfter]

\* Math.min(...times) for a sequence that is not empty
MinOf(times) ==
    CHOOSE x \in {times[i] : i \in 1..Len(times)} :
        \A i \in 1..Len(times) : x <= times[i]

\* a validateCall that validates the date range only
validateCallDatesOnly(m, startTime, endTime, t) ==
    LET violations ==
            IF validateDateRangeCM(startTime, endTime, t).isValid THEN {}
            ELSE {Violation("DATE_RANGE_VIOLATION", 0)}
    IN  [isValid |-> violations = {}, violations |-> violations,
         isBlocked |-> m.isBlocked, blockedUntil |-> m.blockedUntil]

\* validateCall(startTime, endTime) at time t on a manager with the fields
\* of m: what it returns, and isBlocked and blockedUntil after the call
validateCall(m, startTime, endTime, t) ==
    LET blocked == m.isBlocked /\ t < m.blockedUntil
        recentCalls == SelectSeq(m.callHistory, LAMBDA time : time > t - 60000)
        violations ==
            (IF blocked
             THEN {Violation("API_KEY_BLOCKED", m.blockedUntil - t)}
             ELSE {})
            \cup
            (IF m.lastCallTime # Null /\ t - m.lastCallTime < minIntervalMs
             THEN {Violation("MINIMUM_INTERVAL_VIOLATION",
                             minIntervalMs - (t - m.lastCallTime))}
             ELSE {})
            \cup
            (IF Len(recentCalls) >= maxCallsPerMinute
             THEN {Violation("RATE_LIMIT_EXCEEDED",
                             MinOf(recentCalls) + 60000 - t)}
             ELSE {})
            \cup
            (IF validateDateRangeCM(startTime, endTime, t).isValid THEN {}
             ELSE {Violation("DATE_RANGE_VIOLATION", 0)})
    IN  [isValid |-> violations = {}, violations |-> violations,
         isBlocked |-> blocked,
         blockedUntil |-> IF m.isBlocked /\ ~blocked THEN Null
                          ELSE m.blockedUntil]

\* the date ranges passed to validateCall when the clock shows t: the day
\* before t, and the same day with its bounds exchanged
CallRanges(t) ==
    {[startTime |-> DateOf(t \div 1000 - DaySec), endTime |-> DateOf(t \div 1000)],
     [startTime |-> DateOf(t \div 1000), endTime |-> DateOf(t \div 1000 - DaySec)]}

\* the amounts of time that may pass between two calls of the manager
ManagerDeltas == {1000, minIntervalMs - 1000, minIntervalMs}

InitManager ==
    /\ InitClock
    /\ InitLimiter
    /\ InitCache(sdkMaxSize)
    /\ pc = [p \in Procs |-> "idle"]
    /\ req = [p \in Procs |-> 0]
    /\ result = [p \in Procs |-> NoRequest]
    /\ ranges = [p \in Procs |-> <<>>]
    /\ sent = [p \in Procs |-> 0]
    /\ admitLog = <<>>
    /\ cl = NoCall
    /\ sr = NoProbe
    /\ eh = NoError
    /\ dc = NoDates
    /\ gk = NoKeys
    /\ cm = NewManager

ManagerOp ==
    /\ cm.ops < MaxManagerOps
    /\ UNCHANGED <<now, advances, rlVars, cacheVars, sdkVars, cl, sr, eh, dc,
                   gk>>

ValidateCall ==
    /\ ManagerOp
    /\ \E r \in CallRanges(now) :
          LET v == validateCall(cm, r.startTime, r.endTime, now)
          IN  cm' = [cm EXCEPT !.step = "validateCall", !.at = now,
                               !.isValid = v.isValid,
                               !.violations = v.violations,
                               !.isBlocked = v.isBlocked,
                               !.blockedUntil = v.blockedUntil,
                               !.ops = @ + 1]

RecordCallCM ==
    /\ ManagerOp
    /\ cm' = [cm EXCEPT !.step = "recordCall", !.at = now,
                        !.lastCallTime = now,
                        !.callHistory =
                            SelectSeq(Append(@, now),
                                      LAMBDA time : time > now - HourMs),
                        !.ops = @ + 1]

HandleBlocking ==
    /\ ManagerOp
    /\ cm' = [cm EXCEPT !.step = "handleBlocking", !.at = now,
                        !.isBlocked = TRUE,
                        !.blockedUntil = now + blockDurationMs,
                        !.ops = @ + 1]

AdvanceCM ==
    /\ advances < MaxAdvancesCM
    /\ advances' = advances + 1
    /\ \E d \in ManagerDeltas : now' = now + d
    /\ UNCHANGED <<rlVars, cacheVars, sdkVars, clientVars>>

NextManager ==
    \/ ValidateCall
    \/ RecordCallCM
    \/ HandleBlocking
    \/ AdvanceCM

SpecManager == InitManager /\ [][NextManager]_vars

(***************************************************************************)
(* The steps of getLeadsForDateRange, for valid Date inputs.               *)
(***************************************************************************)
SdkDeltas == {30 * 1000, defaultTTL}

Finish(p, res) ==
    /\ pc' = [pc EXCEPT ![p] = "idle"]
    /\ result' = [result EXCEPT ![p] = res]

\* the date range fails the compliance validation: the failure is returned
\* after the await of the warning
Rejected(p) ==
    /\ pc[p] = "idle"
    /\ ranges[p] # <<>>
    /\ \E r \in Head(ranges[p]) :
         /\ ~Compliant(r, now)
         /\ req' = [req EXCEPT ![p] = r]
    /\ ranges' = [ranges EXCEPT ![p] = Tail(@)]
    /\ Finish(p, [success |-> FALSE, code |-> 400, from |-> "compliance",
                  value |-> NoValue, retryAfter |-> Null])
    /\ UNCHANGED <<clientVars, now, advances, rlVars, cacheVars, sent, admitLog>>

\* a compliant range, from the cache lookup to the first await after the
\* rate-limit check: a hit returns the cached value; a miss asks the rate
\* limiter
Request(p) ==
    /\ pc[p] = "idle"
    /\ ranges[p] # <<>>
    /\ \E r \in Head(ranges[p]) :
         LET g == GetOn(cache, stats, RangeKey(r), now)
             c == CanMakeCallOn(calls, blockedUntil, now)
         IN  /\ Compliant(r, now)
             /\ req' = [req EXCEPT ![p] = r]
             /\ ranges' = [ranges EXCEPT ![p] = Tail(@)]
             /\ cache' = g.cache
             /\ stats' = g.stats
             /\ IF g.value # NoValue
                THEN /\ Finish(p, [success |-> TRUE, code |-> 200,
                                  from |-> "cache", value |-> g.value,
                                  retryAfter |-> Null])
                     /\ UNCHANGED <<rlVars, admitLog>>
                ELSE /\ calls' = c.calls
                     /\ blockedUntil' = c.blockedUntil
                     /\ last' = c.res
                     /\ pc' = [pc EXCEPT ![p] =
                                  IF c.res.allowed THEN "admitted" ELSE "denied"]
                     /\ admitLog' = IF c.res.allowed THEN Append(admitLog, now)
                                    ELSE admitLog
                     /\ UNCHANGED result
    /\ UNCHANGED <<clientVars, now, advances, maxSize, cops, cres, sent>>

\* the error leaves getLeadsForDateRange instead of being turned into a
\* returned object
propagate(from) ==
    [success |-> FALSE, code |-> 0, from |-> "thrown", value |-> NoValue,
     retryAfter |-> Null]

\* the object the inner catch returns for an error thrown at `from`:
\* code is err.statusCode || 500, and neither the Error of the denial nor
\* the errors of client.getLeads carry a statusCode
innerCatch(from) ==
    [success |-> FALSE, code |-> 500, from |-> from, value |-> NoValue,
     retryAfter |-> Null]

\* the denial is thrown after the await of the warning and caught by the
\* inner catch, which calls recordCall(false) and returns the failure
DeniedCatch(p) ==
    /\ pc[p] = "denied"
    /\ calls' = RecordCallOn(calls, now, FALSE)
    /\ last' = NoResult
    /\ Finish(p, innerCatch("rate_limit"))
    /\ UNCHANGED <<clientVars, now, advances, blockedUntil, cacheVars, req, ranges,
                   sent, admitLog>>

\* after the await of the debug log: this.client.getLeads(...) is invoked
TransportCall(p) ==
    /\ pc[p] = "admitted"
    /\ pc' = [pc EXCEPT ![p] = "inflight"]
    /\ sent' = [sent EXCEPT ![p] = @ + 1]
    /\ UNCHANGED <<clientVars, now, advances, rlVars, cacheVars, req, result, ranges,
                   admitLog>>

\* client.getLeads resolved: recordCall(true), then the await of the download
TransportOk(p) ==
    /\ pc[p] = "inflight"
    /\ Len(calls) < MaxCalls
    /\ calls' = RecordCallOn(calls, now, TRUE)
    /\ last' = NoResult
    /\ pc' = [pc EXCEPT ![p] = "fetched"]
    /\ UNCHANGED <<clientVars, now, advances, blockedUntil, cacheVars, req, result,
                   ranges, sent, admitLog>>

\* client.getLeads threw: the inner catch calls recordCall(false)
TransportFail(p) ==
    /\ pc[p] = "inflight"
    /\ calls' = RecordCallOn(calls, now, FALSE)
    /\ last' = NoResult
    /\ Finish(p, innerCatch("error"))
    /\ UNCHANGED <<clientVars, now, advances, blockedUntil, cacheVars, req, ranges,
                   sent, admitLog>>

\* this.cache.set(cacheKey, responseData, 300000) and the return
Store(p) ==
    LET r == SetOn(cache, stats, maxSize, RangeKey(req[p]), Response(req[p]),
                   defaultTTL, now)
    IN  /\ pc[p] = "fetched"
        /\ cache' = r.cache
        /\ stats' = r.stats
        /\ Finish(p, [success |-> TRUE, code |-> 200, from |-> "api",
                      value |-> Response(req[p]), retryAfter |-> Null])
        /\ UNCHANGED <<clientVars, now, advances, rlVars, maxSize, cops, cres, req, ranges,
                       sent, admitLog>>

AdvanceS ==
    /\ advances < MaxAdvancesS
    /\ \E d \in SdkDeltas : now' = now + d
    /\ advances' = advances + 1
    /\ UNCHANGED <<rlVars, cacheVars, sdkVars, clientVars>>

\* rate-limits.json outlives the SDK instance.  The file a new instance may
\* find: none; the one left by 5 calls recorded in the current instant; the
\* one left by 5 recorded calls at each of 0, 15, 30, 45 and 60 minutes; or
\* that one before its last call.  In these histories every call was
\* recorded after an allowed check (they are states of SpecRLD).
QuarterCalls == [i \in 1..25 |-> ((i - 1) \div 5) * 15 * MinuteMs]

PriorFiles ==
    {[calls |-> <<>>, blockedUntil |-> Null, now |-> 0],
     [calls |-> [i \in 1..callsPerMinute |-> 0], blockedUntil |-> Null, now |-> 0],
     [calls |-> SubSeq(QuarterCalls, 1, Len(QuarterCalls) - 1),
      blockedUntil |-> Null, now |-> HourMs],
     [calls |-> QuarterCalls, blockedUntil |-> Null, now |-> HourMs]}

\* one caller issuing requests one after the other, each for one of two
\* compliant date ranges or for a range that fails the validation
Sequential == 1 :> [i \in 1..MaxRequests |-> {1, 2} \cup BadRanges]

\* every caller issuing requests, each request for a compliant date range
\* that no other request asks for; the first may be for the empty range
\* instead
Concurrent ==
    [p \in Procs |->
        [i \in 1..MaxRequests |->
            {2 + (p - 1) * MaxRequests + i} \cup (IF i = 1 THEN {19} ELSE {})]]

InitSDK ==
    /\ advances = 0
    /\ InitCache(sdkMaxSize)
    /\ last = NoResult
    /\ InitCallers(Sequential)
    /\ \E f \in PriorFiles :
          /\ now = f.now
          /\ calls = f.calls
          /\ blockedUntil = f.blockedUntil

InitConc ==
    /\ InitClock
    /\ InitLimiter
    /\ InitCache(sdkMaxSize)
    /\ InitCallers(Concurrent)

NextSDK ==
    \/ \E p \in Procs : Rejected(p)
    \/ \E p \in Procs : Request(p)
    \/ \E p \in Procs : DeniedCatch(p)
    \/ \E p \in Procs : TransportCall(p)
    \/ \E p \in Procs : TransportOk(p)
    \/ \E p \in Procs : TransportFail(p)
    \/ \E p \in Procs : Store(p)
    \/ AdvanceS

SpecSDK == InitSDK /\ [][NextSDK]_vars

SpecConc == InitConc /\ [][NextSDK]_vars

(***************************************************************************)
(* IndiaMartErrorHandler (error-handler.js)                                *)
(***************************************************************************)
\* this.maxRetries = options.maxRetries || 3
handlerMaxRetries(opt) == IF opt = Null \/ opt = 0 THEN 3 ELSE opt

noRetryTypes ==
    {"INVALID_API_KEY", "API_KEY_EXPIRED_INACTIVITY",
     "API_KEY_EXPIRED_NEW_GENERATED", "NO_LEADS", "DATE_RANGE_TOO_LARGE",
     "MISSING_DATE_PARAMETERS", "INVALID_DATE_FORMAT"}

\* the values of error.details?.type: the types createSpecificError and
\* getErrorType give, and undefined
ErrorTypes ==
    noRetryTypes \cup
    {"RATE_LIMIT_5_MIN", "RATE_LIMIT_15_MIN", "RATE_LIMIT_EXCEEDED",
     "HISTORICAL_DATA_UNAVAILABLE", "SERVER_ERROR", "UNKNOWN_ERROR",
     "UNHANDLED_ERROR", "undefined"}

\* a shouldRetry that looks at the attempt count only
shouldRetryByCount(type, attemptCount, maxRetries) == attemptCount < maxRetries

\* shouldRetry(error, attemptCount) of a handler whose this.maxRetries is
\* maxRetries, for an error with error.details?.type = type
shouldRetry(type, attemptCount, maxRetries) ==
    IF attemptCount >= maxRetries THEN FALSE ELSE type \notin noRetryTypes

\* the maxRetries option the handler is constructed with
MaxRetriesOptions == {Null, 0, 1, 2, 5}

InitShouldRetry ==
    /\ InitClock
    /\ InitLimiter
    /\ InitCache(sdkMaxSize)
    /\ pc = [p \in Procs |-> "idle"]
    /\ req = [p \in Procs |-> 0]
    /\ result = [p \in Procs |-> NoRequest]
    /\ ranges = [p \in Procs |-> <<>>]
    /\ sent = [p \in Procs |-> 0]
    /\ admitLog = <<>>
    /\ cl = NoCall
    /\ eh = NoError
    /\ dc = NoDates
    /\ cm = NoManager
    /\ gk = NoKeys
    /\ \E type \in ErrorTypes, attemptCount \in 0..MaxAttempt,
          opt \in MaxRetriesOptions :
          sr = [type |-> type, attemptCount |-> attemptCount,
                maxRetries |-> handlerMaxRetries(opt), returned |-> "none"]

ShouldRetry ==
    /\ sr.returned = "none"
    /\ sr' = [sr EXCEPT !.returned =
                 IF shouldRetry(sr.type, sr.attemptCount, sr.maxRetries)
                 THEN "true" ELSE "false"]
    /\ UNCHANGED <<now, advances, rlVars, cacheVars, sdkVars, cl, eh, dc, cm,
                   gk>>

NextShouldRetry == ShouldRetry

SpecShouldRetry == InitShouldRetry /\ [][NextShouldRetry]_vars

(***************************************************************************)
(* IndiaMartErrorHandler: handleResponse, createSpecificError, handleError *)
(* and getRetryDelay.                                                      *)
(*                                                                         *)
(* A message is held as the set of the fragments it contains, of those     *)
(* createSpecificError looks for; the empty set stands for a message with  *)
(* none of them and for a missing message.                                 *)
(***************************************************************************)
Fragments ==
    {"5 minutes", "Too Many Requests", "incorrect", "expired",
     "no longer in use", "generated", "no leads", "available after 24 hours",
     "365 days", "date parameters", "Date format"}

Messages == {m \in SUBSET Fragments : Cardinality(m) <= 2}

\* the codes of the responses
Codes == {200, 204, 400, 401, 403, 429, 500}

\* an IndiaMartError: its code and, of its details, type and retryAfter
\* (Null when the error has no details)
ErrorOf(code, type, retryAfter) ==
    [code |-> code, type |-> type, retryAfter |-> retryAfter]

\* the object {code: code} that client.getLeads passes to getRetryDelay
CodeOnly(code) == ErrorOf(code, "undefined", Null)

\* a createSpecificError that takes the default branch for every code
createUnknownError(code, message) == ErrorOf(code, "UNKNOWN_ERROR", 10 * 1000)

createSpecificError(code, message) ==
    LET Fallback == ErrorOf(code, "UNHANDLED_ERROR", 10 * 1000)
    IN  CASE code = 429 ->
               IF "5 minutes" \in message
               THEN ErrorOf(code, "RATE_LIMIT_5_MIN", 5 * 60 * 1000)
               ELSE IF "Too Many Requests" \in message
               THEN ErrorOf(code, "RATE_LIMIT_15_MIN", 15 * 60 * 1000)
               ELSE Fallback
          [] code = 401 ->
               IF "incorrect" \in message
               THEN ErrorOf(code, "INVALID_API_KEY", 0)
               ELSE IF "expired" \in message /\ "no longer in use" \in message
               THEN ErrorOf(code, "API_KEY_EXPIRED_INACTIVITY", 0)
               ELSE IF "expired" \in message /\ "generated" \in message
               THEN ErrorOf(code, "API_KEY_EXPIRED_NEW_GENERATED", 0)
               ELSE Fallback
          [] code = 204 ->
               IF "no leads" \in message
               THEN ErrorOf(code, "NO_LEADS", 0)
               ELSE IF "available after 24 hours" \in message
               THEN ErrorOf(code, "HISTORICAL_DATA_UNAVAILABLE",
                            24 * 60 * 60 * 1000)
               ELSE Fallback
          [] code = 400 ->
               IF "365 days" \in message
               THEN ErrorOf(code, "DATE_RANGE_TOO_LARGE", 0)
               ELSE IF "date parameters" \in message
               THEN ErrorOf(code, "MISSING_DATE_PARAMETERS", 0)
               ELSE IF "Date format" \in message
               THEN ErrorOf(code, "INVALID_DATE_FORMAT", 0)
               ELSE Fallback
          [] code = 500 -> ErrorOf(code, "SERVER_ERROR", 30 * 1000)
          [] OTHER -> ErrorOf(code, "UNKNOWN_ERROR", 10 * 1000)

\* this.retryDelays
retryDelays(code) ==
    IF code = 429 THEN 5 * 60 * 1000
    ELSE IF code = 500 THEN 30 * 1000
    ELSE Null

defaultRetryDelay == 10 * 1000

\* the largest delay getRetryDelay returns
maxRetryDelay == 5 * 60 * 1000

\* a || b on delays: null, undefined and 0 are falsy
OrElse(a, b) == IF a = Null \/ a = 0 THEN b ELSE a

\* a getRetryDelay without the cap
getRetryDelayUncapped(error, attemptCount) ==
    OrElse(error.retryAfter, OrElse(retryDelays(error.code), defaultRetryDelay))
        * 2 ^ (attemptCount - 1)

\* getRetryDelay(error, attemptCount); Math.pow(2, -1) is one half
getRetryDelay(error, attemptCount) ==
    LET baseDelay == OrElse(error.retryAfter,
                            OrElse(retryDelays(error.code), defaultRetryDelay))
        delay == IF attemptCount >= 1
                 THEN baseDelay * 2 ^ (attemptCount - 1)
                 ELSE baseDelay \div 2
    IN  IF delay < maxRetryDelay THEN delay ELSE maxRetryDelay

\* handleError has not been called
NotHandled == [attemptCount |-> 0, shouldRetry |-> FALSE, delay |-> 0]

InitHandler ==
    /\ InitClock
    /\ InitLimiter
    /\ InitCache(sdkMaxSize)
    /\ InitCallers(<<>>)

\* handleResponse({code, status: 'FAILURE', message})
HandleResponse ==
    /\ eh.step = "none"
    /\ \E code \in Codes, message \in Messages :
          eh' = [step |-> IF code = 200 THEN "success" ELSE "error",
                 code |-> code,
                 message |-> message,
                 error |-> IF code = 200 THEN CodeOnly(Null)
                           ELSE createSpecificError(code, message),
                 handled |-> NotHandled,
                 delays |-> <<>>]
    /\ UNCHANGED <<now, advances, rlVars, cacheVars, sdkVars, cl, sr, dc, cm,
                   gk>>

\* client.getLeads builds {code: statusCode} for getRetryDelay
BareError ==
    /\ eh.step = "none"
    /\ \E code \in Codes \cup {Null} :
          eh' = [step |-> "error", code |-> code, message |-> {},
                 error |-> CodeOnly(code), handled |-> NotHandled,
                 delays |-> <<>>]
    /\ UNCHANGED <<now, advances, rlVars, cacheVars, sdkVars, cl, sr, dc, cm,
                   gk>>

\* handleError(error, context, attemptCount) on a handler constructed
\* without options
HandleError ==
    /\ eh.step = "error"
    /\ eh.handled = NotHandled
    /\ \E attemptCount \in 1..MaxDelayAttempt :
          LET retry == shouldRetry(eh.error.type, attemptCount,
                                   handlerMaxRetries(Null))
          IN  eh' = [eh EXCEPT !.handled =
                        [attemptCount |-> attemptCount,
                         shouldRetry |-> retry,
                         delay |-> IF retry
                                   THEN getRetryDelay(eh.error, attemptCount)
                                   ELSE 0]]
    /\ UNCHANGED <<now, advances, rlVars, cacheVars, sdkVars, cl, sr, dc, cm,
                   gk>>

\* getRetryDelay(error, attemptCount) for attemptCount = 1, 2, ...:
\* eh.delays[n] is what the call with attemptCount = n returned
GetRetryDelay ==
    /\ eh.step = "error"
    /\ Len(eh.delays) < MaxDelayAttempt
    /\ eh' = [eh EXCEPT !.delays =
                 Append(@, getRetryDelay(eh.error, Len(eh.delays) + 1))]
    /\ UNCHANGED <<now, advances, rlVars, cacheVars, sdkVars, cl, sr, dc, cm,
                   gk>>

NextHandler ==
    \/ HandleResponse
    \/ BareError
    \/ HandleError
    \/ GetRetryDelay

SpecHandler == InitHandler /\ [][NextHandler]_vars

(***************************************************************************)
(* IndiaMartClient.getLeads (indiamart-client.js): the retry loop.         *)
(*                                                                         *)
(* What one fetch gives the loop: an object that processResponse reads     *)
(* (its CODE, STATUS and MESSAGE; CODE is Null and MESSAGE "undefined" for *)
(* an object without these properties, such as a fetch Response), or a     *)
(* rejection.                                                              *)
(***************************************************************************)
Upstream ==
    {[kind |-> "response", CODE |-> 200, STATUS |-> "SUCCESS", MESSAGE |-> ""],
     [kind |-> "response", CODE |-> 401, STATUS |-> "FAILURE",
      MESSAGE |-> "The API key is incorrect"],
     [kind |-> "response", CODE |-> 401, STATUS |-> "FAILURE",
      MESSAGE |-> "invalid key"],
     [kind |-> "response", CODE |-> 400, STATUS |-> "FAILURE",
      MESSAGE |-> "more than 365 days"],
     [kind |-> "response", CODE |-> 400, STATUS |-> "FAILURE",
      MESSAGE |-> "date parameters missing"],
     [kind |-> "response", CODE |-> 400, STATUS |-> "FAILURE",
      MESSAGE |-> "Date format is invalid"],
     [kind |-> "response", CODE |-> 204, STATUS |-> "FAILURE",
      MESSAGE |-> "There are no leads"],
     [kind |-> "response", CODE |-> 429, STATUS |-> "FAILURE",
      MESSAGE |-> "Too Many Requests"],
     [kind |-> "response", CODE |-> 500, STATUS |-> "FAILURE",
      MESSAGE |-> "Internal Server Error"],
     [kind |-> "response", CODE |-> Null, STATUS |-> "undefined",
      MESSAGE |-> "undefined"],
     [kind |-> "reject", CODE |-> Null, STATUS |-> "undefined",
      MESSAGE |-> "fetch failed"],
     [kind |-> "abort", CODE |-> Null, STATUS |-> "undefined",
      MESSAGE |-> "This operation was aborted"],
     [kind |-> "reject", CODE |-> Null, STATUS |-> "undefined",
      MESSAGE |-> "This operation was aborted"]}

\* What fetch gives when its signal is aborted: a rejection, with an error
\* whose code is 'ABORT_ERR' (kind "abort") or, as for the DOMException of
\* the built-in fetch, is not (kind "reject").
AbortedUpstream ==
    {o \in Upstream : o.MESSAGE = "This operation was aborted"}

\* message.includes('rate limit'), message.includes('invalid key')
MentionsRateLimit(message) == FALSE

MentionsInvalidKey(message) == message = "invalid key"

\* IndiaMartResponseHandler.processResponse: success, error and statusCode
processResponse(r) ==
    [success |-> r.CODE = 200 /\ r.STATUS = "SUCCESS",
     error |-> IF r.CODE = 200 THEN "null"
               ELSE IF r.MESSAGE \in {"undefined", ""} THEN "API call failed"
               ELSE r.MESSAGE,
     statusCode |-> r.CODE]

\* getErrorType(statusCode, errorMessage); statusCode is Null when undefined
getErrorType(statusCode, errorMessage) ==
    IF statusCode = 401 THEN "INVALID_API_KEY"
    ELSE IF statusCode = 429 THEN "RATE_LIMIT_EXCEEDED"
    ELSE IF statusCode >= 500 THEN "SERVER_ERROR"
    ELSE IF MentionsRateLimit(errorMessage) THEN "RATE_LIMIT_EXCEEDED"
    ELSE IF MentionsInvalidKey(errorMessage) THEN "INVALID_API_KEY"
    ELSE "UNKNOWN_ERROR"

\* isRetryableError(statusCode, errorMessage), on the handler the client
\* constructs without options
isRetryableError(statusCode, errorMessage) ==
    shouldRetry(getErrorType(statusCode, errorMessage), 0,
                handlerMaxRetries(Null))

\* an attemptCount that is not incremented
Same(n) == n

\* attemptCount++
Incremented(n) == n + 1

\* the catch block of the loop for an error with the given message and
\* without statusCode, at attempt count a: what the call does next
Caught(message, aborted, a, maxRetries) ==
    LET retryable == ~aborted /\ isRetryableError(Null, message)
        a2 == IF retryable THEN Incremented(a) ELSE a
    IN  IF retryable /\ a2 < maxRetries
        THEN [pc |-> "sleeping", attemptCount |-> a2,
              delay |-> getRetryDelay(CodeOnly(Null), a2)]
        ELSE [pc |-> "threw", attemptCount |-> a2, delay |-> 0]

\* the body of the loop after the fetch settled with o, at attempt count a
Settled(o, a, maxRetries) ==
    IF o.kind # "response"
    THEN Caught(o.MESSAGE, o.kind = "abort", a, maxRetries)
    ELSE LET r == processResponse(o)
             retryable == isRetryableError(r.statusCode, r.error)
             a1 == IF retryable THEN Incremented(a) ELSE a
         IN  IF r.success
             THEN [pc |-> "returned", attemptCount |-> a, delay |-> 0]
             ELSE IF retryable /\ a1 < maxRetries
             THEN [pc |-> "sleeping", attemptCount |-> a1,
                   delay |-> getRetryDelay(CodeOnly(r.statusCode), a1)]
             ELSE Caught(r.error, FALSE, a1, maxRetries)

\* The SDK's rate-limit check allows the request and client.getLeads is
\* called; cl.checked records that canMakeCall ran since the last fetch.
ClCall ==
    LET c == CanMakeCallOn(calls, blockedUntil, now)
    IN  /\ cl.pc = "idle"
        /\ cl.done < MaxClientCalls
        /\ c.res.allowed
        /\ last' = c.res
        /\ calls' = c.calls
        /\ blockedUntil' = c.blockedUntil
        /\ \E m \in 1..MaxMaxRetries :
              cl' = [cl EXCEPT !.pc = "loop", !.maxRetries = m,
                               !.attemptCount = 0, !.fetches = 0,
                               !.delay = 0, !.checked = TRUE,
                               !.outcome = "none", !.cancelled = FALSE]
        /\ UNCHANGED <<now, advances, cacheVars, sdkVars, probeVars>>

\* while (attemptCount < maxRetries): the fetch is issued, or the loop ends
\* and MAX_RETRIES_EXCEEDED is thrown
ClLoop ==
    /\ cl.pc = "loop"
    /\ cl' = IF cl.attemptCount < cl.maxRetries
             THEN [cl EXCEPT !.pc = "fetching", !.fetches = @ + 1,
                             !.checked = FALSE]
             ELSE [cl EXCEPT !.pc = "threw", !.outcome = "MAX_RETRIES_EXCEEDED"]
    /\ UNCHANGED <<now, advances, rlVars, cacheVars, sdkVars, probeVars>>

\* the fetch settles with o
ClOutcome(o) ==
    LET n == Settled(o, cl.attemptCount, cl.maxRetries)
    IN  /\ cl.pc = "fetching"
        /\ cl.cancelled => o \in AbortedUpstream
        /\ cl' = [cl EXCEPT !.pc = n.pc, !.attemptCount = n.attemptCount,
                            !.delay = n.delay, !.outcome = o.MESSAGE]
        /\ UNCHANGED <<now, advances, rlVars, cacheVars, sdkVars, probeVars>>

ClSettle == \E o \in Upstream : ClOutcome(o)

\* await new Promise(resolve => setTimeout(resolve, delay)); continue
ClWake ==
    /\ cl.pc = "sleeping"
    /\ now' = now + cl.delay
    /\ cl' = [cl EXCEPT !.pc = "loop"]
    /\ UNCHANGED <<advances, rlVars, cacheVars, sdkVars, probeVars>>

\* the caller aborts opts.signal while getLeads waits in the backoff sleep:
\* the timer of the sleep does not observe the signal
ClCancel ==
    /\ cl.pc = "sleeping"
    /\ ~cl.cancelled
    /\ cl' = [cl EXCEPT !.cancelled = TRUE]
    /\ UNCHANGED <<now, advances, rlVars, cacheVars, sdkVars, probeVars>>

\* getLeads returned or threw: the SDK calls recordCall(true) or
\* recordCall(false)
ClDone ==
    /\ cl.pc \in {"returned", "threw"}
    /\ calls' = RecordCallOn(calls, now, cl.pc = "returned")
    /\ last' = NoResult
    /\ cl' = [cl EXCEPT !.pc = "idle", !.done = @ + 1]
    /\ UNCHANGED <<now, advances, blockedUntil, cacheVars, sdkVars, probeVars>>

InitClient ==
    /\ InitClock
    /\ InitLimiter
    /\ InitCache(sdkMaxSize)
    /\ InitCallers(<<>>)

NextClient ==
    \/ ClCall
    \/ ClLoop
    \/ ClSettle
    \/ ClWake
    \/ ClDone

SpecClient == InitClient /\ [][NextClient]_vars

\* the calls of SpecClient, with a caller that may abort the signal during
\* a backoff sleep
NextCancel ==
    \/ ClCall
    \/ ClLoop
    \/ ClSettle
    \/ ClWake
    \/ ClCancel
    \/ ClDone

SpecCancel == InitClient /\ [][NextCancel]_vars

\* every fetch settles, every timer fires, and the steps of the program
\* that are enabled are taken
SpecClientLive ==
    /\ InitClient
    /\ [][NextClient]_vars
    /\ WF_vars(ClLoop)
    /\ WF_vars(ClSettle)
    /\ WF_vars(ClWake)
    /\ WF_vars(ClDone)

(***************************************************************************)
(* Claims                                                                  *)
(***************************************************************************)
\* an unexpired block is recorded
Blocked == blockedUntil # Null /\ now < blockedUntil

\* a block is recorded and its end has passed
Expired == blockedUntil # Null /\ now >= blockedUntil

RecentCount == Len(CallsWithin(calls, now, MinuteMs))

HourCount == Len(CallsWithin(calls, now, HourMs))

\* C1: from a reset limiter, with recordCall(true) after every allowed
\* check, a check is allowed while fewer than 5 records lie in the trailing
\* 60 seconds (and neither the hourly ceiling nor a block applies), and a
\* check made while 5 records lie in the trailing 60 seconds is denied with
\* retryAfter > 0.
C1_MinuteWindow ==
    [][CanMakeCall =>
         /\ (RecentCount < callsPerMinute /\ HourCount < callsPerHour /\ ~Blocked)
                => last'.allowed
         /\ RecentCount >= callsPerMinute
                => (~last'.allowed /\ last'.retryAfter > 0)]_vars

\* the records of the trailing hour that belong to the current cycle: all
\* of them when no block is recorded, those made since the block ended
\* otherwise
CycleCalls ==
    SelectSeq(CallsWithin(calls, now, HourMs),
              LAMBDA c : blockedUntil = Null \/ c >= blockedUntil)

\* C2: a check that finds 20 calls recorded in the trailing hour denies and
\* sets blockedUntil = now + 15 minutes; every check strictly before
\* blockedUntil is denied; a check at or after blockedUntil is allowed.
C2_BlockCycle ==
    [][CanMakeCall =>
         /\ (~Blocked /\ Len(CycleCalls) >= callsPerHour)
                => (~last'.allowed /\ blockedUntil' = now + BlockMs)
         /\ Blocked => ~last'.allowed
         /\ (Expired /\ Len(CycleCalls) < callsPerHour) => last'.allowed]_vars

\* C3: in every reachable state, a check made while 5 or more calls lie in
\* the trailing 60 seconds is denied.
C3_MinuteCeiling ==
    [][(CanMakeCall /\ RecentCount >= callsPerMinute) => ~last'.allowed]_vars

\* C4: the first check at or after blockedUntil clears the block in the
\* stored state, and getStats then reports isBlocked = false.
C4_BlockCleared ==
    [][(CanMakeCall /\ Expired) =>
          (blockedUntil' = Null /\ ~getStats'.isBlocked)]_vars

\* the instant of the latest recorded call; recordCall keeps an instant only
\* for a successful transport call
LastRecorded == calls[Len(calls)]

\* C5: after a successful transport call recorded at time t, the admission
\* check of an uncached request at a time t' with t' - t < 5 minutes is
\* denied, with retryAfter = 5 minutes - (t' - t).
C5_MinInterval ==
    [][\A p \in Procs :
         (/\ Request(p)
          /\ pc'[p] # "idle"
          /\ calls # <<>>
          /\ now - LastRecorded < minIntervalMs)
         => /\ pc'[p] = "denied"
            /\ last'.retryAfter = minIntervalMs - (now - LastRecorded)]_vars

\* C6: a request whose transport call failed leaves one more record in the
\* call history than there was before the request.
C6_FailureCounted ==
    [][\A p \in Procs : TransportFail(p) => Len(calls') = Len(calls) + 1]_vars

\* the step of caller p that takes the denial of canMakeCall
Denied(p) == Request(p) /\ pc'[p] = "denied"

\* C7 as stated: a request denied by canMakeCall never invokes the transport
\* and leaves the call history unchanged.
C7_DeniedUnchanged ==
    [][\A p \in Procs :
         /\ (Denied(p) \/ DeniedCatch(p)) => calls' = calls
         /\ (pc[p] = "denied" \/ pc'[p] = "denied") => sent'[p] = sent[p]]_vars

\* C7, amended: a request denied by canMakeCall never invokes the transport
\* and adds no record to the call history; the stored history is left as it
\* was, except that a denial for the hourly ceiling removes from it the
\* records older than one hour.
C7_DeniedNoRecord ==
    [][\A p \in Procs :
         /\ Denied(p) =>
               calls' = IF last'.reason = "HOURLY_LIMIT_EXCEEDED"
                        THEN CallsWithin(calls, now, HourMs)
                        ELSE calls
         /\ DeniedCatch(p) => calls' = calls
         /\ (pc[p] = "denied" \/ pc'[p] = "denied") => sent'[p] = sent[p]]_vars

\* a denied request has returned, after a denial for the hourly ceiling that
\* dropped the records older than one hour
C7_Witness ==
    \E p \in Procs :
        /\ pc[p] = "idle"
        /\ result[p].from = "rate_limit"
        /\ sent[p] = 0
        /\ blockedUntil = now + BlockMs
        /\ Len(calls) = callsPerHour

\* the admissions made in the window of length w that ends at instant t
AdmittedWithin(t, w) ==
    Cardinality({i \in 1..Len(admitLog) : admitLog[i] > t - w /\ admitLog[i] <= t})

\* the callers whose request canMakeCall admitted and recordCall has not
\* recorded yet
Unrecorded == {p \in Procs : pc[p] \in {"admitted", "inflight"}}

\* C8: whatever the interleaving of concurrent requests for distinct
\* uncached ranges, at most 5 requests are admitted to the transport in any
\* 60-second window and at most 20 in any hour, and no request is admitted
\* while a call admitted before it is still unrecorded.
C8_AdmissionCeiling ==
    /\ [](\A i \in 1..Len(admitLog) :
            /\ AdmittedWithin(admitLog[i], MinuteMs) <= callsPerMinute
            /\ AdmittedWithin(admitLog[i], HourMs) <= callsPerHour)
    /\ [][\A p \in Procs :
            (Request(p) /\ pc'[p] = "admitted") => Unrecorded = {}]_vars

\* C9: after any sequence of cache operations at any timestamps, size()
\* never exceeds maxSize.
C9_SizeBound == size <= maxSize

\* the entry of c that an LRU eviction removes: the oldest lastAccessed,
\* the earliest inserted among equals
IsLruIndex(c, i) ==
    \A j \in 1..Len(c) :
        \/ c[i].lastAccessed < c[j].lastAccessed
        \/ (c[i].lastAccessed = c[j].lastAccessed /\ i <= j)

\* C10: a set of a new key into a cache holding maxSize entries evicts
\* exactly one entry, the one with the oldest lastAccessed (the earliest
\* inserted among equals), and appends the new entry.
C10_EvictsLRU ==
    [][\A k \in Keys :
         (SetKey(k) /\ KeyIndex(cache, k) = 0 /\ Len(cache) = maxSize) =>
            /\ stats'.evictions = stats.evictions + 1
            /\ \E i \in 1..Len(cache) :
                  /\ IsLruIndex(cache, i)
                  /\ SubSeq(cache', 1, Len(cache') - 1)
                       = Without(cache, cache[i].key)]_vars

\* the entry of key k in Map c (k is present)
EntryOf(c, k) == c[KeyIndex(c, k)]

\* the step is a get(k)
GetsKey(k) == Get /\ cres'.op = "get" /\ cres'.key = k

\* C11: set(k, v, ttl) at time c creates the entry of k with that value, ttl
\* and creation time; until the next set of k its value, ttl and creation
\* time stay as set, and while t - c <= ttl no get, has or cleanup removes
\* it; get(k) at time t returns v and keeps the entry when t - c <= ttl, and
\* returns null and removes the entry when t - c > ttl.
C11_TTL ==
    [][\A k \in Keys :
         /\ SetKey(k) =>
               /\ KeyIndex(cache', k) # 0
               /\ EntryOf(cache', k).createdAt = now
               /\ EntryOf(cache', k).value = cres'.value
               /\ EntryOf(cache', k).ttl \in TTLs
         /\ KeyIndex(cache, k) # 0 =>
               LET e == EntryOf(cache, k)
                   live == now - e.createdAt <= e.ttl
               IN  /\ (KeyIndex(cache', k) # 0 /\ ~SetKey(k)) =>
                         /\ EntryOf(cache', k).createdAt = e.createdAt
                         /\ EntryOf(cache', k).value = e.value
                         /\ EntryOf(cache', k).ttl = e.ttl
                   /\ (live /\ (Get \/ Has \/ Cleanup \/ AdvanceC)) =>
                         KeyIndex(cache', k) # 0
                   /\ (GetsKey(k) /\ live) => cres'.value = e.value
                   /\ (GetsKey(k) /\ ~live) =>
                         (cres'.value = NoValue /\ KeyIndex(cache', k) = 0)]_vars

\* a get returned a value that was set at an earlier instant and had been
\* hit before
C11_Witness ==
    /\ cres.op = "get"
    /\ cres.value # NoValue
    /\ KeyIndex(cache, cres.key) # 0
    /\ EntryOf(cache, cres.key).createdAt < now
    /\ EntryOf(cache, cres.key).accessCount >= 2
    /\ cres.value = EntryOf(cache, cres.key).value
\* 100 percent, in hundredths of a percent
Full == 100 * 100

Abs(x) == IF x < 0 THEN 0 - x ELSE x

\* C12 as stated: hitRate and missRate lie in [0,100], are 0 when no get
\* has been made, and otherwise hitRate is exactly hits / (hits + misses)
\* as a percentage.
C12_ExactRate ==
    LET st == getCacheStats
    IN  /\ st.hitRate \in 0..Full
        /\ st.missRate \in 0..Full
        /\ st.totalRequests = 0 => (st.hitRate = 0 /\ st.missRate = 0)
        /\ st.totalRequests > 0 =>
              st.hitRate * st.totalRequests = st.hits * Full

\* C12, amended: hitRate and missRate lie in [0,100], are 0 when no get has
\* been made, and otherwise are hits / (hits + misses) and
\* misses / (hits + misses) as percentages rounded to two decimals.
C12_RoundedRate ==
    LET st == getCacheStats
    IN  /\ st.hitRate \in 0..Full
        /\ st.missRate \in 0..Full
        /\ st.totalRequests = 0 => (st.hitRate = 0 /\ st.missRate = 0)
        /\ st.totalRequests > 0 =>
              /\ 2 * Abs(st.hitRate * st.totalRequests - st.hits * Full)
                    <= st.totalRequests
              /\ 2 * Abs(st.missRate * st.totalRequests - st.misses * Full)
                    <= st.totalRequests

\* two hits and one miss: a hit rate of 66.67 percent
C12_Witness ==
    /\ stats.hits = 2
    /\ stats.misses = 1
    /\ getCacheStats.hitRate = 6667
    /\ getCacheStats.missRate = 3333
\* caller p starts a request in this step, for the range req'[p]
Starts(p) == pc[p] = "idle" /\ ranges'[p] # ranges[p]

\* C13: a request for a date range that fails the compliance validation
\* returns a failure with no cache lookup (hit and miss counters and the
\* entries unchanged), no canMakeCall or recordCall on the rate limiter and
\* no transport call.
C13_RejectedEarly ==
    [][\A p \in Procs :
         (/\ Starts(p)
          /\ ~validateDateRange(DateRange(req'[p]).startDate,
                                DateRange(req'[p]).endDate, now).isValid)
         => /\ pc'[p] = "idle"
            /\ ~result'[p].success
            /\ result'[p].from = "compliance"
            /\ UNCHANGED <<cache, stats, calls, blockedUntil, last, sent,
                           admitLog>>]_vars

\* a request for a non-compliant range has returned its failure, in an
\* instance that has looked up its cache and recorded a call before
C13_Witness ==
    \E p \in Procs :
        /\ pc[p] = "idle"
        /\ result[p].from = "compliance"
        /\ req[p] \in BadRanges
        /\ stats.misses > 0
        /\ calls # <<>>
        /\ sent[p] > 0
\* C14: a request whose date range has an unexpired cache entry returns
\* the cached value without canMakeCall, recordCall or a transport call,
\* whatever the state of the rate limiter.
C14_CachedIsFree ==
    [][\A p \in Procs :
         LET k == RangeKey(req'[p])
         IN  (/\ Starts(p)
              /\ Compliant(req'[p], now)
              /\ KeyIndex(cache, k) # 0
              /\ now - EntryOf(cache, k).createdAt <= EntryOf(cache, k).ttl)
             => /\ pc'[p] = "idle"
                /\ result'[p].success
                /\ result'[p].value = EntryOf(cache, k).value
                /\ result'[p].value = Response(req'[p])
                /\ UNCHANGED <<calls, blockedUntil, last, sent, admitLog>>]_vars

\* a request was served from the cache while the rate limiter is blocked
\* and holds 5 calls of the trailing 60 seconds
C14_Witness ==
    \E p \in Procs :
        /\ pc[p] = "idle"
        /\ result[p].from = "cache"
        /\ result[p].value = Response(req[p])
        /\ Blocked
        /\ RecentCount >= callsPerMinute
        /\ stats.hits > 0
\* caller p is between the admission of its request and its return
InCall(p) == pc[p] \in {"admitted", "inflight", "fetched"}

\* C15: on a successful transport response the request appends exactly one
\* record to the call history, stores the result in the cache under the
\* key of its date range with a ttl of 5 minutes, and returns the result.
C15_SuccessStored ==
    [][\A p \in Procs :
         /\ TransportOk(p) => calls' = Append(calls, now)
         /\ (InCall(p) /\ pc'[p] # pc[p] /\ ~TransportOk(p)) => calls' = calls
         /\ (Starts(p) /\ pc'[p] = "admitted") => calls' = calls
         /\ Store(p) =>
               LET k == RangeKey(req[p])
               IN  /\ KeyIndex(cache', k) # 0
                   /\ EntryOf(cache', k).value = Response(req[p])
                   /\ EntryOf(cache', k).ttl = 5 * MinuteMs
                   /\ EntryOf(cache', k).createdAt = now
                   /\ pc'[p] = "idle"
                   /\ result'[p].success
                   /\ result'[p].value = Response(req[p])]_vars

\* a request has returned the transport's result; the result is in the
\* cache and the latest record of the history is of this instant
C15_Witness ==
    \E p \in Procs :
        /\ pc[p] = "idle"
        /\ result[p].from = "api"
        /\ KeyIndex(cache, RangeKey(req[p])) # 0
        /\ EntryOf(cache, RangeKey(req[p])).value = result[p].value
        /\ calls # <<>>
        /\ calls[Len(calls)] = now
        /\ sent[p] = 1

\* C16: when canMakeCall denies a request, the failure the request returns
\* carries the retryAfter that canMakeCall computed.
C16_CarriesRetryAfter ==
    [][\A p \in Procs :
         (DeniedCatch(p) /\ last.op = "canMakeCall")
         => /\ ~result'[p].success
            /\ result'[p].retryAfter = last.retryAfter]_vars

\* the upstream outcomes of a terminal kind: 401, 400 and 204 responses
TerminalUpstream ==
    {o \in Upstream : o.kind = "response" /\ o.CODE \in {401, 400, 204}}

\* C17: when the fetch of client.getLeads settles with an outcome of a
\* terminal kind (401, 400, 204), the call throws at once: no backoff sleep
\* and no further fetch follows.
C17_TerminalOnce ==
    [][\A o \in TerminalUpstream : ClOutcome(o) => cl'.pc = "threw"]_vars

\* C18: for every maxRetries >= 1 and every sequence of fetch outcomes,
\* client.getLeads issues at most maxRetries fetches, and a call that entered
\* the loop ends by returning a result or throwing an error.
C18_BoundedRetries ==
    /\ [](cl.fetches <= cl.maxRetries)
    /\ (cl.pc = "loop") ~> (cl.pc \in {"returned", "threw"})

C18_Witness ==
    /\ cl.pc = "threw"
    /\ cl.maxRetries >= 2
    /\ cl.fetches = cl.maxRetries

\* C19: within one request, every fetch after the first is issued after a
\* canMakeCall check made since the preceding fetch.
C19_CheckBeforeRetry ==
    [][(ClLoop /\ cl'.pc = "fetching") => cl.checked]_vars

\* the error types of an invalid or expired key, of no leads, of a date
\* range too large, of missing date parameters and of an invalid date format
TerminalTypes ==
    {"INVALID_API_KEY", "API_KEY_EXPIRED_INACTIVITY",
     "API_KEY_EXPIRED_NEW_GENERATED", "NO_LEADS", "DATE_RANGE_TOO_LARGE",
     "MISSING_DATE_PARAMETERS", "INVALID_DATE_FORMAT"}

\* C20: shouldRetry(error, attemptCount) returns false when attemptCount >=
\* maxRetries or the type of the error is terminal, and true in every other
\* case.
C20_ShouldRetry ==
    sr.returned # "none" =>
        (sr.returned = "false"
            <=> (sr.attemptCount >= sr.maxRetries \/ sr.type \in TerminalTypes))

\* shouldRetry has refused a terminal error on an attempt below maxRetries
C20_Witness ==
    /\ sr.returned = "false"
    /\ sr.type = "NO_LEADS"
    /\ sr.attemptCount < sr.maxRetries

\* C21: the error created for a 401 response whose message contains
\* "incorrect" is of type INVALID_API_KEY and handleError does not retry it;
\* the error created for a 429 response whose message contains "5 minutes"
\* is of type RATE_LIMIT_5_MIN with retryAfter = 300000 ms, and handleError
\* retries it, after 300000 ms, while attempts remain.
C21_Classify ==
    (eh.step = "error" /\ eh.handled # NotHandled) =>
        /\ (eh.code = 401 /\ "incorrect" \in eh.message) =>
               /\ eh.error.type = "INVALID_API_KEY"
               /\ ~eh.handled.shouldRetry
        /\ (eh.code = 429 /\ "5 minutes" \in eh.message) =>
               /\ eh.error.type = "RATE_LIMIT_5_MIN"
               /\ eh.error.retryAfter = 300000
               /\ eh.handled.shouldRetry <=> eh.handled.attemptCount < 3
               /\ eh.handled.shouldRetry => eh.handled.delay = 300000

C21_Witness ==
    /\ eh.step = "error"
    /\ eh.code = 429
    /\ eh.message = {"5 minutes", "Too Many Requests"}
    /\ eh.handled.attemptCount = 1
    /\ eh.handled.shouldRetry

\* the base delay of an error: its positive retryAfter, or else the delay
\* of its status (5 minutes for 429, 30 seconds for 500, 10 seconds for
\* every other status)
BaseDelay(error) ==
    IF error.retryAfter # Null /\ error.retryAfter > 0 THEN error.retryAfter
    ELSE IF error.code = 429 THEN 300000
    ELSE IF error.code = 500 THEN 30000
    ELSE 10000

\* C22: getRetryDelay(error, n) for n >= 1 is
\* min(baseDelay * 2^(n - 1), 300000 ms): it never exceeds 5 minutes and
\* never decreases as n grows.
C22_RetryDelay ==
    eh.step = "error" =>
        \A n \in 1..Len(eh.delays) :
            LET grown == BaseDelay(eh.error) * 2 ^ (n - 1)
            IN  /\ eh.delays[n] = IF grown < 300000 THEN grown ELSE 300000
                /\ eh.delays[n] <= 300000
                /\ n > 1 => eh.delays[n - 1] <= eh.delays[n]

C22_Witness ==
    /\ eh.step = "error"
    /\ eh.error.type = "SERVER_ERROR"
    /\ Len(eh.delays) >= 4
    /\ SubSeq(eh.delays, 1, 4) = <<30000, 60000, 120000, 240000>>


\* a validateDateRange of one of the two managers was given two dates
BothDates ==
    /\ dc.step \in {"DateComplianceManager.validateDateRange",
                    "IndiaMartComplianceManager.validateDateRange"}
    /\ dc.startDate.kind = "date"
    /\ dc.endDate.kind = "date"

\* the text with which each manager reports an inverted range
InvertedError ==
    IF dc.step = "DateComplianceManager.validateDateRange"
    THEN "Start date must be before end date"
    ELSE "end_time must be greater than start_time"

\* C23: for two dates with end <= start, validateDateRange of
\* DateComplianceManager and of IndiaMartComplianceManager return
\* isValid = false with the inverted-range error among the errors.
C23_Inverted ==
    (BothDates /\ dc.endDate.time <= dc.startDate.time) =>
        /\ ~dc.compliance.isValid
        /\ InvertedError \in dc.compliance.errors

C23_Witness ==
    /\ dc.step = "IndiaMartComplianceManager.validateDateRange"
    /\ dc.startDate.kind = "date"
    /\ dc.endDate = dc.startDate
    /\ dc.compliance.errors = {"end_time must be greater than start_time"}

C26_TodayCompliant ==
    dc.step = "getTodayRange" => dc.compliance.isValid

\* C27: getLastDaysRange(days) returns actualDays = min(days, 7) and a
\* range of at most 7 days whose compliance is valid.
C27_LastDaysCompliant ==
    dc.step = "getLastDaysRange" =>
        /\ dc.actualDays = IF dc.days < 7 THEN dc.days ELSE 7
        /\ dc.endDate.time - dc.startDate.time <= 7 * DaySec
        /\ dc.compliance.isValid


\* the violations of the minimum interval that the latest validateCall
\* returned
IntervalViolations ==
    {v \in cm.violations : v.type = "MINIMUM_INTERVAL_VIOLATION"}

\* C28: validateCall at time t', the latest recordCall having been made at
\* time t: when t' - t < 5 minutes the call returns isValid = false with a
\* MINIMUM_INTERVAL_VIOLATION whose retryAfter is 5 minutes - (t' - t);
\* when t' - t >= 5 minutes, and when no call was recorded, it reports no
\* such violation.
C28_MinimumInterval ==
    cm.step = "validateCall" =>
        IF cm.lastCallTime # Null /\ cm.at - cm.lastCallTime < 5 * MinuteMs
        THEN /\ ~cm.isValid
             /\ IntervalViolations =
                    {Violation("MINIMUM_INTERVAL_VIOLATION",
                               5 * MinuteMs - (cm.at - cm.lastCallTime))}
        ELSE IntervalViolations = {}

C28_Witness ==
    /\ cm.step = "validateCall"
    /\ cm.lastCallTime # Null
    /\ cm.at - cm.lastCallTime = 5 * MinuteMs - 1000
    /\ cm.violations = {Violation("MINIMUM_INTERVAL_VIOLATION", 1000)}


\* C29: invalidatePattern(pattern) removes every entry whose key matches
\* the pattern, returns the number of entries removed, and leaves every
\* other entry (key, value, createdAt, lastAccessed, in the same order) and
\* the hits, misses and evictions counters unchanged.
C29_InvalidatePattern ==
    [][InvalidatePattern =>
         LET p == cres'.key
             rest == {i \in 1..Len(cache) : ~Matches(p, cache[i].key)}
         IN  /\ Len(cache') = Cardinality(rest)
             /\ \A i \in rest :
                   cache'[Cardinality({j \in rest : j <= i})] = cache[i]
             /\ cres'.count = Len(cache) - Cardinality(rest)
             /\ stats'.hits = stats.hits
             /\ stats'.misses = stats.misses
             /\ stats'.evictions = stats.evictions]_vars

\* an invalidation has removed one entry and kept the other
C29_Witness ==
    /\ cres.op = "invalidatePattern"
    /\ cres.count = 1
    /\ Len(cache) = 1


\* C30: for a prefix and two parameter objects that hold the same
\* properties in different insertion orders, generateKey returns the same
\* key, and a value stored under the key of one object is what get returns
\* for the key of the other.
C30_OrderIndependent ==
    /\ gk.step # "none" => gk.key1 = gk.key2
    /\ gk.step = "read" => (cres.value = gk.stored /\ stats.hits = 1)

C30_Witness ==
    /\ gk.step = "read"
    /\ Len(gk.first) = 3
    /\ gk.first[1][1] = "startDate"
    /\ gk.second[1][1] = "page"
    /\ cres.value = gk.stored

\* C31: getLeadsForDateRange never lets an exception out: whatever a request
\* returned is an object, and when the request failed (at the validation, at
\* the rate limiter or at the transport) the object has success = false and
\* a code, 400 for a validation failure and 500 otherwise.
C31_AlwaysReturns ==
    \A p \in Procs :
        result[p].from # "none" =>
            /\ result[p].from # "thrown"
            /\ result[p].success <=> result[p].from \in {"cache", "api"}
            /\ result[p].success => result[p].code = 200
            /\ ~result[p].success =>
                   result[p].code =
                       IF result[p].from = "compliance" THEN 400 ELSE 500

C31_Witness ==
    /\ result[1].from = "error"
    /\ ~result[1].success
    /\ result[1].code = 500
    /\ sent[1] >= 2

\* C32: once the caller has cancelled during a backoff sleep of getLeads,
\* the retry loop is abandoned: the request issues no further fetch, and it
\* changes neither the rate limiter's call history nor the cache.
C32_CancelAbandons ==
    [][(cl.cancelled /\ cl.pc # "idle") =>
           /\ cl'.fetches = cl.fetches
           /\ calls' = calls
           /\ cache' = cache]_vars

\* the entries of c stored under keys other than k
Others(c, k) == {c[i] : i \in {j \in 1..Len(c) : c[j].key # k}}

\* C33: a set on a key that is present replaces the value and starts the
\* entry again (creation time, ttl, access count); no other entry is
\* touched, nothing is evicted even when the cache holds maxSize entries,
\* and the eviction counter and the size stay as they were.
C33_ReplaceInPlace ==
    [][\A k \in Keys :
         (SetKey(k) /\ KeyIndex(cache, k) # 0) =>
             /\ \E ttl \in TTLs :
                   EntryOf(cache', k) = CacheEntry(k, cres'.value, ttl, now)
             /\ Others(cache', k) = Others(cache, k)
             /\ Len(cache') = Len(cache)
             /\ stats'.size = Len(cache)
             /\ stats'.evictions = stats.evictions]_vars

C33_Witness ==
    /\ cres.op = "set"
    /\ cres.count = 1
    /\ Len(cache) = maxSize
    /\ stats.evictions = 0
    /\ EntryOf(cache, cres.key).value = cres.value
    /\ EntryOf(cache, cres.key).createdAt = now
    /\ \E e \in Others(cache, cres.key) : e.createdAt < now

\* C34: after every canMakeCall and after every recordCall the call history
\* in the file holds no instant older than one hour.
C34_PersistedPruned ==
    [][(CanMakeCall \/ RecordSuccess \/ RecordFailure) =>
           \A i \in 1..Len(calls') : calls'[i] >= now - HourMs]_vars

\* C35: when a canMakeCall now is denied with retryAfter r (the key is
\* blocked, the hourly ceiling or the minute ceiling is reached) and no call
\* is recorded afterwards, the canMakeCall made r later allows the call.
C35_RetryAfterSuffices ==
    LET c == CanMakeCallOn(calls, blockedUntil, now)
    IN  ~c.res.allowed =>
            CanMakeCallOn(c.calls, c.blockedUntil,
                          now + c.res.retryAfter).res.allowed

\* C36: getStatus is read-only: it changes neither the call history in the
\* file nor blockedUntil, and the canMakeCall that follows it returns what
\* it would have returned without it.
C36_StatusReadOnly ==
    [][GetStatus =>
           /\ calls' = calls
           /\ blockedUntil' = blockedUntil
           /\ CanMakeCallOn(calls', blockedUntil', now).res =
                  CanMakeCallOn(calls, blockedUntil, now).res]_vars

\* C37: while the key is blocked (now < blockedUntil) no canMakeCall and no
\* getStatus changes blockedUntil: polling does not extend the block.
C37_BlockNotExtended ==
    [][((CanMakeCall \/ GetStatus) /\ Blocked) =>
           blockedUntil' = blockedUntil]_vars

C37_Witness ==
    /\ Blocked
    /\ now > 0
    /\ last.op \in {"canMakeCall", "getStatus"}
    /\ last.reason = "RATE_LIMIT_BLOCKED"
    /\ last.retryAfter < BlockMs

\* the value is a responseData with success: true
Succeeded(v) == \E r \in DOMAIN Responses : v = Responses[r]

\* what the cache stores: the entries without their access bookkeeping
Stored(c) ==
    {[key |-> c[i].key, value |-> c[i].value, createdAt |-> c[i].createdAt,
      ttl |-> c[i].ttl] : i \in 1..Len(c)}

\* C38: only successful responses are cached: every entry of the cache holds
\* a result with success = true, and a step of a request other than the
\* store that follows a successful transport call (so every step of a
\* request that fails the validation, is denied by the rate limiter or fails
\* at the transport) adds no entry and replaces none.
C38_OnlySuccessCached ==
    /\ [](\A i \in 1..Len(cache) : Succeeded(cache[i].value))
    /\ [][(\A p \in Procs : ~Store(p)) =>
              Stored(cache') \subseteq Stored(cache)]_vars
    /\ [][\A p \in Procs :
             Store(p) => (pc[p] = "fetched" /\ result'[p].success)]_vars

C38_Witness ==
    /\ pc[1] = "idle"
    /\ ~result[1].success
    /\ result[1].from \in {"error", "rate_limit"}
    /\ Len(cache) >= 1
    /\ KeyIndex(cache, RangeKey(req[1])) = 0
    /\ \A i \in 1..Len(cache) : Succeeded(cache[i].value)

\* C39: the two validators agree: for two dates, validateDateRange of
\* DateComplianceManager and validateDateRange of IndiaMartComplianceManager
\* return the same isValid when asked at the same time.
C39_ValidatorsAgree ==
    BothDates =>
        validateDates(dc.startDate, dc.endDate, dc.at).isValid =
            validateDateRangeCM(dc.startDate, dc.endDate, dc.at).isValid

====
